---- MODULE Spec2Model ----
(***************************************************************************)
(* Model of the access-control core of the repository:                     *)
(*   src/src/domain/entities/resource_access_control.py                    *)
(*     (Principal, AllowEntry, ResourceAccessControl)                      *)
(*   src/src/domain/entities/_base.py  (Entity)                            *)
(*   src/src/shared/notification.py    (Notification)                      *)
(*                                                                         *)
(* Python lists are sequences, Optional[T] is a sequence of length 0 or 1, *)
(* datetime values are integers read from the clock `now`.  The error      *)
(* messages are the source's messages written in ASCII.                    *)
(***************************************************************************)
EXTENDS Integers, Sequences, FiniteSets, TLC

\* ------------------------------------------------------------------ bounds
\* Largest clock value.
MaxClock == 1
\* Longest role list a caller passes to AllowEntry(...) / update_allow_entry.
MaxRoles == 2
\* Longest allow_entries list passed to the constructor.
MaxInit == 2
\* Most entries the explored aggregates hold.
MaxEntries == 2
\* Rejected calls are explored while the error list is shorter than this.
MaxErrors == 1

\* Longest role list passed to AllowEntry(...) when it is checked on its own.
MaxRoleArgs == 3

\* ------------------------------------------------------------ value objects
\* datetime argument left out (None).
NoTime == -1

ResourceRole == {"FULL_ACCESS", "EDITOR", "USER", "VIEWER"}

PrincipalType == {"ORGANIZATION", "TEAM", "USER"}

Principal(principal_type, principal_id) ==
    [principal_type |-> principal_type, principal_id |-> principal_id]

\* The principals the callers use: one id under two principal types.
Principals == {Principal("USER", "id1"), Principal("TEAM", "id1")}

\* Mutant: equality is object identity.
Principal_is(a, b) == a = b

Principal_eq(a, b) ==
    /\ a.principal_type = b.principal_type
    /\ a.principal_id = b.principal_id

\* The tuple __hash__ hashes.
Principal_hash(a) == <<a.principal_type, a.principal_id>>

Range(s) == {s[i] : i \in 1..Len(s)}

SeqsUpTo(S, n) == UNION {[1..k -> S] : k \in 0..n}

\* Every list of roles a caller can pass.
RoleLists == SeqsUpTo(ResourceRole, MaxRoles)

\* `role in self._roles`
InRoles(role, roles) == \E i \in 1..Len(roles) : roles[i] = role

\* Mutant: the USER/VIEWER exclusion is missing.
AllowEntry_validate_role_hierarchy_no_user_viewer(roles) ==
    IF InRoles("FULL_ACCESS", roles) /\ Len(roles) > 1
    THEN <<"FULL_ACCESS nao pode ser combinado com outros papeis">>
    ELSE IF InRoles("EDITOR", roles) /\ InRoles("VIEWER", roles)
    THEN <<"EDITOR ja inclui permissoes de VIEWER">>
    ELSE <<>>

\* The ValueError message _validate_role_hierarchy raises, <<>> when it returns.
AllowEntry_validate_role_hierarchy(roles) ==
    IF InRoles("FULL_ACCESS", roles) /\ Len(roles) > 1
    THEN <<"FULL_ACCESS nao pode ser combinado com outros papeis">>
    ELSE IF InRoles("EDITOR", roles) /\ InRoles("VIEWER", roles)
    THEN <<"EDITOR ja inclui permissoes de VIEWER">>
    ELSE IF InRoles("USER", roles) /\ InRoles("VIEWER", roles)
    THEN <<"USER ja inclui permissoes de VIEWER">>
    ELSE <<>>

\* Mutant: the check for repeated roles is missing.
AllowEntry_validate_no_duplicate_check(principal, roles) ==
    IF Len(roles) = 0
    THEN <<"Lista de papeis nao pode estar vazia">>
    ELSE AllowEntry_validate_role_hierarchy(roles)

\* The ValueError message _validate raises, <<>> when it returns.  The
\* principal is a Principal object and roles a list of ResourceRole.
AllowEntry_validate(principal, roles) ==
    IF Len(roles) = 0
    THEN <<"Lista de papeis nao pode estar vazia">>
    ELSE IF Len(roles) # Cardinality(Range(roles))
    THEN <<"Nao pode haver papeis duplicados">>
    ELSE AllowEntry_validate_role_hierarchy(roles)

\* AllowEntry(principal, roles): the object, or the ValueError raised.
AllowEntry(principal, roles) ==
    LET err == AllowEntry_validate(principal, roles)
    IN  IF err = <<>>
        THEN [raised |-> FALSE, error |-> "",
              value |-> <<[principal |-> principal, roles |-> roles]>>]
        ELSE [raised |-> TRUE, error |-> err[1], value |-> <<>>]

AllowEntry_has_role(entry, role) == InRoles(role, entry.roles)

AllowEntry_has_full_access(entry) == InRoles("FULL_ACCESS", entry.roles)

AllowEntry_can_edit(entry) ==
    InRoles("FULL_ACCESS", entry.roles) \/ InRoles("EDITOR", entry.roles)

\* Mutant: USER does not give use.
AllowEntry_can_use_without_user(entry) ==
    InRoles("FULL_ACCESS", entry.roles) \/ InRoles("EDITOR", entry.roles)

AllowEntry_can_use(entry) ==
    \/ InRoles("FULL_ACCESS", entry.roles)
    \/ InRoles("EDITOR", entry.roles)
    \/ InRoles("USER", entry.roles)

\* Mutant: viewing asks for the VIEWER role itself.
AllowEntry_can_view_viewer_only(entry) == InRoles("VIEWER", entry.roles)

AllowEntry_can_view(entry) == Len(entry.roles) > 0

AllowEntry_can_delete(entry) ==
    InRoles("FULL_ACCESS", entry.roles) \/ InRoles("EDITOR", entry.roles)

AllowEntry_can_share(entry) == InRoles("FULL_ACCESS", entry.roles)

AllowEntry_eq(a, b) ==
    /\ Principal_eq(a.principal, b.principal)
    /\ Range(a.roles) = Range(b.roles)

\* Every AllowEntry object a caller can hold: the constructions that return.
AllowEntries ==
    {AllowEntry(p, r).value[1] :
        <<p, r>> \in {pr \in Principals \X RoleLists : ~AllowEntry(pr[1], pr[2]).raised}}

\* ------------------------------------------------------------- Notification
\* Notification.add_error on the aggregate's error list.
add_error(self, message) ==
    IF message # ""
    THEN [self EXCEPT !.errors = Append(@, message)]
    ELSE self

\* ----------------------------------------------------- ResourceAccessControl
\* An aggregate is [allow_entries, updated_at, errors]; created_at and the
\* identity fields are never assigned after construction.

\* Optional[AllowEntry]: the first entry in list order whose principal equals.
find_entry_by_principal(entries, principal) ==
    IF \E i \in 1..Len(entries) : Principal_eq(entries[i].principal, principal)
    THEN <<entries[CHOOSE i \in 1..Len(entries) :
                /\ Principal_eq(entries[i].principal, principal)
                /\ \A j \in 1..(i - 1) : ~Principal_eq(entries[j].principal, principal)]>>
    ELSE <<>>

\* list.remove(x): drops the first element equal (==) to x.
\* Mutant: the first entry of the list is removed, whichever it is.
list_remove_head(entries, x) == Tail(entries)

list_remove(entries, x) ==
    LET i == CHOOSE k \in 1..Len(entries) :
                /\ AllowEntry_eq(entries[k], x)
                /\ \A j \in 1..(k - 1) : ~AllowEntry_eq(entries[j], x)
    IN  SubSeq(entries, 1, i - 1) \o SubSeq(entries, i + 1, Len(entries))

\* Mutant: the duplicate check is missing.
add_allow_entry_unchecked(self, allow_entry, t) ==
    [self EXCEPT !.allow_entries = Append(@, allow_entry), !.updated_at = t]

\* Mutant: an existing entry is overwritten instead of the call being rejected.
add_allow_entry_overwrite(self, allow_entry, t) ==
    LET entry == find_entry_by_principal(self.allow_entries, allow_entry.principal)
    IN  IF entry # <<>>
        THEN [self EXCEPT !.allow_entries = Append(list_remove(@, entry[1]), allow_entry),
                          !.updated_at = t]
        ELSE [self EXCEPT !.allow_entries = Append(@, allow_entry),
                          !.updated_at = t]

\* Mutant: a successful add starts from a clean error list.
add_allow_entry_clearing(self, allow_entry, t) ==
    IF find_entry_by_principal(self.allow_entries, allow_entry.principal) # <<>>
    THEN add_error(self, "Principal ja possui permissoes definidas")
    ELSE [self EXCEPT !.allow_entries = Append(@, allow_entry),
                      !.updated_at = t,
                      !.errors = <<>>]

add_allow_entry(self, allow_entry, t) ==
    IF find_entry_by_principal(self.allow_entries, allow_entry.principal) # <<>>
    THEN add_error(self, "Principal ja possui permissoes definidas")
    ELSE [self EXCEPT !.allow_entries = Append(@, allow_entry),
                      !.updated_at = t]

\* Mutant: removing an absent principal returns without recording an error.
remove_allow_entry_silent(self, principal, t) ==
    LET entry == find_entry_by_principal(self.allow_entries, principal)
    IN  IF entry = <<>>
        THEN self
        ELSE [self EXCEPT !.allow_entries = list_remove(@, entry[1]),
                          !.updated_at = t]

\* Mutant: a successful removal leaves the timestamp as it was.
remove_allow_entry_keep_time(self, principal, t) ==
    LET entry == find_entry_by_principal(self.allow_entries, principal)
    IN  IF entry = <<>>
        THEN add_error(self, "Principal nao possui permissoes definidas")
        ELSE [self EXCEPT !.allow_entries = list_remove(@, entry[1])]

remove_allow_entry(self, principal, t) ==
    LET entry == find_entry_by_principal(self.allow_entries, principal)
    IN  IF entry = <<>>
        THEN add_error(self, "Principal nao possui permissoes definidas")
        ELSE [self EXCEPT !.allow_entries = list_remove(@, entry[1]),
                          !.updated_at = t]

\* Mutant: the old entry is removed before the new one is constructed.
update_allow_entry_remove_first(self, principal, new_roles, t) ==
    IF Len(new_roles) = 0
    THEN add_error(self, "Lista de papeis nao pode estar vazia")
    ELSE LET entry == find_entry_by_principal(self.allow_entries, principal)
         IN  IF entry = <<>>
             THEN add_error(self, "Principal nao possui permissoes definidas")
             ELSE LET new_entry == AllowEntry(principal, new_roles)
                      removed == [self EXCEPT !.allow_entries = list_remove(@, entry[1])]
                  IN  IF new_entry.raised
                      THEN add_error(removed, new_entry.error)
                      ELSE [removed EXCEPT
                              !.allow_entries = Append(@, new_entry.value[1]),
                              !.updated_at = t]

\* Mutant: the new entry is appended and the old one is kept.
update_allow_entry_keep_old(self, principal, new_roles, t) ==
    IF Len(new_roles) = 0
    THEN add_error(self, "Lista de papeis nao pode estar vazia")
    ELSE LET entry == find_entry_by_principal(self.allow_entries, principal)
         IN  IF entry = <<>>
             THEN add_error(self, "Principal nao possui permissoes definidas")
             ELSE LET new_entry == AllowEntry(principal, new_roles)
                  IN  IF new_entry.raised
                      THEN add_error(self, new_entry.error)
                      ELSE [self EXCEPT
                              !.allow_entries = Append(@, new_entry.value[1]),
                              !.updated_at = t]

update_allow_entry(self, principal, new_roles, t) ==
    IF Len(new_roles) = 0
    THEN add_error(self, "Lista de papeis nao pode estar vazia")
    ELSE LET entry == find_entry_by_principal(self.allow_entries, principal)
         IN  IF entry = <<>>
             THEN add_error(self, "Principal nao possui permissoes definidas")
             ELSE LET new_entry == AllowEntry(principal, new_roles)
                  IN  IF new_entry.raised
                      THEN add_error(self, new_entry.error)
                      ELSE [self EXCEPT
                              !.allow_entries =
                                  Append(list_remove(@, entry[1]), new_entry.value[1]),
                              !.updated_at = t]

\* Mutant: the grant always takes the add path.
grant_role_add_only(self, principal, roles, t) ==
    LET new_entry == AllowEntry(principal, roles)
    IN  IF new_entry.raised
        THEN add_error(self, new_entry.error)
        ELSE add_allow_entry(self, new_entry.value[1], t)

grant_role(self, principal, roles, t) ==
    LET existing_entry == find_entry_by_principal(self.allow_entries, principal)
    IN  IF existing_entry # <<>>
        THEN update_allow_entry(self, principal, roles, t)
        ELSE LET new_entry == AllowEntry(principal, roles)
             IN  IF new_entry.raised
                 THEN add_error(self, new_entry.error)
                 ELSE add_allow_entry(self, new_entry.value[1], t)

grant_full_access(self, principal, t) == grant_role(self, principal, <<"FULL_ACCESS">>, t)

grant_editor_access(self, principal, t) == grant_role(self, principal, <<"EDITOR">>, t)

grant_user_access(self, principal, t) == grant_role(self, principal, <<"USER">>, t)

grant_viewer_access(self, principal, t) == grant_role(self, principal, <<"VIEWER">>, t)

revoke_access(self, principal, t) == remove_allow_entry(self, principal, t)

\* Mutant: the timestamp is left as it was.
clear_all_permissions_keep_time(self, t) ==
    [self EXCEPT !.allow_entries = <<>>]

\* Mutant: clearing starts the aggregate's life again.
clear_all_permissions_recreate(self, t) ==
    [self EXCEPT !.allow_entries = <<>>, !.updated_at = t, !.created_at = t]

clear_all_permissions(self, t) ==
    [self EXCEPT !.allow_entries = <<>>, !.updated_at = t]

\* Entity.clear_notifications -> Notification.clear
clear_notifications(self) == [self EXCEPT !.errors = <<>>]

\* Entity.is_valid -> not Notification.has_errors
is_valid(self) == ~(Len(self.errors) > 0)

\* Queries.
has_access(self, principal) ==
    find_entry_by_principal(self.allow_entries, principal) # <<>>

can_view(self, principal) ==
    LET entry == find_entry_by_principal(self.allow_entries, principal)
    IN  IF entry # <<>> THEN AllowEntry_can_view(entry[1]) ELSE FALSE

can_use(self, principal) ==
    LET entry == find_entry_by_principal(self.allow_entries, principal)
    IN  IF entry # <<>> THEN AllowEntry_can_use(entry[1]) ELSE FALSE

can_edit(self, principal) ==
    LET entry == find_entry_by_principal(self.allow_entries, principal)
    IN  IF entry # <<>> THEN AllowEntry_can_edit(entry[1]) ELSE FALSE

\* Mutant: delete asks for the share capability.
can_delete_as_share(self, principal) ==
    LET entry == find_entry_by_principal(self.allow_entries, principal)
    IN  IF entry # <<>> THEN AllowEntry_can_share(entry[1]) ELSE FALSE

can_delete(self, principal) ==
    LET entry == find_entry_by_principal(self.allow_entries, principal)
    IN  IF entry # <<>> THEN AllowEntry_can_delete(entry[1]) ELSE FALSE

can_share(self, principal) ==
    LET entry == find_entry_by_principal(self.allow_entries, principal)
    IN  IF entry # <<>> THEN AllowEntry_can_share(entry[1]) ELSE FALSE

get_principal_roles(self, principal) ==
    LET entry == find_entry_by_principal(self.allow_entries, principal)
    IN  IF entry # <<>> THEN entry[1].roles ELSE <<>>

get_all_principals(self) ==
    [i \in 1..Len(self.allow_entries) |-> self.allow_entries[i].principal]

get_principals_with_role(self, role) ==
    LET with_role == SelectSeq(self.allow_entries,
                               LAMBDA entry : AllowEntry_has_role(entry, role))
    IN  [i \in 1..Len(with_role) |-> with_role[i].principal]

get_principals_with_full_access(self) == get_principals_with_role(self, "FULL_ACCESS")

\* Mutant: only FULL_ACCESS entries are listed as editing.
get_principals_with_edit_access_full_only(self) ==
    get_principals_with_role(self, "FULL_ACCESS")

get_principals_with_edit_access(self) ==
    LET editing == SelectSeq(self.allow_entries,
                             LAMBDA entry : AllowEntry_can_edit(entry))
    IN  [i \in 1..Len(editing) |-> editing[i].principal]

\* Mutant: editor_count counts the entries that can edit.
get_permissions_summary_can_edit(self) ==
    [total_entries |-> Len(self.allow_entries),
     full_access_count |-> Len(get_principals_with_full_access(self)),
     editor_count |-> Len(get_principals_with_edit_access(self)),
     user_count |-> Len(get_principals_with_role(self, "USER")),
     viewer_count |-> Len(get_principals_with_role(self, "VIEWER"))]

\* The counts of get_permissions_summary (its identifier fields are left out).
get_permissions_summary(self) ==
    [total_entries |-> Len(self.allow_entries),
     full_access_count |-> Len(get_principals_with_full_access(self)),
     editor_count |-> Len(get_principals_with_role(self, "EDITOR")),
     user_count |-> Len(get_principals_with_role(self, "USER")),
     viewer_count |-> Len(get_principals_with_role(self, "VIEWER"))]

\* A query call: the method, its principal argument and its role argument
\* ("" and the empty principal where the method takes none).
Query(op, principal, role) == [op |-> op, principal |-> principal, role |-> role]

\* What a query returns.
query_result(self, q) ==
    CASE q.op = "has_access" -> has_access(self, q.principal)
      [] q.op = "can_view" -> can_view(self, q.principal)
      [] q.op = "can_use" -> can_use(self, q.principal)
      [] q.op = "can_edit" -> can_edit(self, q.principal)
      [] q.op = "can_delete" -> can_delete(self, q.principal)
      [] q.op = "can_share" -> can_share(self, q.principal)
      [] q.op = "get_principal_roles" -> get_principal_roles(self, q.principal)
      [] q.op = "get_all_principals" -> get_all_principals(self)
      [] q.op = "get_principals_with_role" -> get_principals_with_role(self, q.role)
      [] q.op = "get_principals_with_full_access" -> get_principals_with_full_access(self)
      [] q.op = "get_principals_with_edit_access" -> get_principals_with_edit_access(self)
      [] q.op = "get_permissions_summary" -> get_permissions_summary(self)

\* Mutant: a query about a principal without an entry records an error.
ask_recording(self, q) ==
    [self |-> IF q.principal \in Principals /\ ~has_access(self, q.principal)
              THEN add_error(self, "Principal nao possui permissoes definidas")
              ELSE self,
     result |-> query_result(self, q)]

\* A query method called on the aggregate: the aggregate afterwards (no
\* query assigns a field, appends to a list or records an error) and the
\* value returned.
ask(self, q) == [self |-> self, result |-> query_result(self, q)]

\* The message of _validate_business_rules for a repeated principal; it
\* ends with the principal's id value.
DuplicateMessage(principal) ==
    IF principal.principal_id = "id1"
    THEN "Principal duplicado encontrado: id1"
    ELSE "Principal duplicado encontrado: "

\* _validate_business_rules: the errors it records, in order; t is the
\* clock it reads.
validate_business_rules(entries, created, updated, t) ==
    LET idx == [i \in 1..Len(entries) |-> i]
        dup == SelectSeq(idx, LAMBDA i :
                   \E j \in 1..(i - 1) : Principal_eq(entries[j].principal, entries[i].principal))
    IN  (IF updated < created
         THEN <<"Data de atualizacao nao pode ser anterior a data de criacao">>
         ELSE <<>>)
        \o (IF created > t THEN <<"Data de criacao nao pode ser futura">> ELSE <<>>)
        \o [k \in 1..Len(dup) |-> DuplicateMessage(entries[dup[k]].principal)]

\* ResourceAccessControl.__init__ with valid identity fields: the object
\* after _validate.  t1, t2, t3 are the clock's values at the constructor's
\* three reads (created_at default, updated_at default, the future check).
ResourceAccessControl_init(allow_entries_arg, created_arg, updated_arg, t1, t2, t3) ==
    LET entries == allow_entries_arg
        created == IF created_arg = NoTime THEN t1 ELSE created_arg
        updated == IF updated_arg = NoTime THEN t2 ELSE updated_arg
    IN  [allow_entries |-> entries,
         created_at |-> created,
         updated_at |-> updated,
         errors |-> validate_business_rules(entries, created, updated, t3)]

\* ------------------------------------------------------------ Python values
\* What a caller can pass where a signature names a type: None, an object of
\* an unrelated type (the str "x"), or an object of the named type.  A role
\* list may hold "x", an element that is not a ResourceRole.
PyNone == [kind |-> "None", val |-> <<>>]

PyStr == [kind |-> "str", val |-> <<>>]

PyPrincipal(principal) == [kind |-> "Principal", val |-> <<principal>>]

PyAllowEntry(entry) == [kind |-> "AllowEntry", val |-> <<entry>>]

PyList(items) == [kind |-> "list", val |-> <<items>>]

\* bool(v): None and the empty list are falsy, every other value here truthy.
Truthy(v) == v.kind # "None" /\ (v.kind = "list" => Len(v.val[1]) > 0)

PrincipalArgs == {PyNone, PyStr} \cup {PyPrincipal(p) : p \in Principals}

AllowEntryArgs ==
    {PyNone, PyStr} \cup {PyPrincipal(p) : p \in Principals}
        \cup {PyAllowEntry(e) : e \in AllowEntries}

RoleListArgs ==
    {PyNone, PyStr} \cup {PyList(r) : r \in SeqsUpTo(ResourceRole \cup {"x"}, MaxRoles)}

\* A constructor that raised ValueError(message).
ValueError(message) == [raised |-> TRUE, error |-> message, value |-> <<>>]

\* AllowEntry(principal, roles) for arguments of any type.
AllowEntry_init(principal, roles) ==
    IF ~Truthy(principal)
    THEN ValueError("Principal e obrigatorio")
    ELSE IF principal.kind # "Principal"
    THEN ValueError("Principal deve ser do tipo Principal")
    ELSE IF ~Truthy(roles)
    THEN ValueError("Lista de papeis nao pode estar vazia")
    ELSE IF roles.kind # "list"
    THEN ValueError("Papeis devem ser uma lista")
    ELSE IF \E i \in 1..Len(roles.val[1]) : roles.val[1][i] \notin ResourceRole
    THEN ValueError("Todos os papeis devem ser do tipo ResourceRole")
    ELSE AllowEntry(principal.val[1], roles.val[1])

\* A method call that returned, or that let an exception escape, leaving the
\* aggregate as `self`.
Returned(self) == [raised |-> FALSE, self |-> self]

Raised(self) == [raised |-> TRUE, self |-> self]

\* _find_entry_by_principal for an argument of any type: Principal.__eq__
\* answers False for an object that is not a Principal.
find_entry_by_principal_any(entries, principal) ==
    IF principal.kind = "Principal"
    THEN find_entry_by_principal(entries, principal.val[1])
    ELSE <<>>

add_allow_entry_any(self, allow_entry, t) ==
    IF ~Truthy(allow_entry)
    THEN Returned(add_error(self, "Entrada de permissao e obrigatoria"))
    ELSE IF allow_entry.kind # "AllowEntry"
    THEN Returned(add_error(self, "Entrada de permissao deve ser do tipo AllowEntry"))
    ELSE Returned(add_allow_entry(self, allow_entry.val[1], t))

remove_allow_entry_any(self, principal, t) ==
    IF ~Truthy(principal)
    THEN Returned(add_error(self, "Principal e obrigatorio"))
    ELSE IF principal.kind # "Principal"
    THEN Returned(add_error(self, "Principal deve ser do tipo Principal"))
    ELSE Returned(remove_allow_entry(self, principal.val[1], t))

\* Mutant: the new entry is constructed outside the try block.
update_allow_entry_any_no_try(self, principal, new_roles, t) ==
    IF ~Truthy(principal)
    THEN Returned(add_error(self, "Principal e obrigatorio"))
    ELSE IF principal.kind # "Principal"
    THEN Returned(add_error(self, "Principal deve ser do tipo Principal"))
    ELSE IF ~Truthy(new_roles)
    THEN Returned(add_error(self, "Lista de papeis nao pode estar vazia"))
    ELSE LET entry == find_entry_by_principal(self.allow_entries, principal.val[1])
         IN  IF entry = <<>>
             THEN Returned(add_error(self, "Principal nao possui permissoes definidas"))
             ELSE LET new_entry == AllowEntry_init(principal, new_roles)
                  IN  IF new_entry.raised
                      THEN Raised(self)
                      ELSE Returned([self EXCEPT
                              !.allow_entries =
                                  Append(list_remove(@, entry[1]), new_entry.value[1]),
                              !.updated_at = t])

update_allow_entry_any(self, principal, new_roles, t) ==
    IF ~Truthy(principal)
    THEN Returned(add_error(self, "Principal e obrigatorio"))
    ELSE IF principal.kind # "Principal"
    THEN Returned(add_error(self, "Principal deve ser do tipo Principal"))
    ELSE IF ~Truthy(new_roles)
    THEN Returned(add_error(self, "Lista de papeis nao pode estar vazia"))
    ELSE LET entry == find_entry_by_principal(self.allow_entries, principal.val[1])
         IN  IF entry = <<>>
             THEN Returned(add_error(self, "Principal nao possui permissoes definidas"))
             ELSE LET new_entry == AllowEntry_init(principal, new_roles)
                  IN  IF new_entry.raised
                      THEN Returned(add_error(self, new_entry.error))
                      ELSE Returned([self EXCEPT
                              !.allow_entries =
                                  Append(list_remove(@, entry[1]), new_entry.value[1]),
                              !.updated_at = t])

grant_role_any(self, principal, roles, t) ==
    IF ~Truthy(principal)
    THEN Returned(add_error(self, "Principal e obrigatorio"))
    ELSE LET existing_entry == find_entry_by_principal_any(self.allow_entries, principal)
         IN  IF existing_entry # <<>>
             THEN update_allow_entry_any(self, principal, PyList(roles), t)
             ELSE LET new_entry == AllowEntry_init(principal, PyList(roles))
                  IN  IF new_entry.raised
                      THEN Returned(add_error(self, new_entry.error))
                      ELSE add_allow_entry_any(self, PyAllowEntry(new_entry.value[1]), t)

grant_full_access_any(self, principal, t) ==
    grant_role_any(self, principal, <<"FULL_ACCESS">>, t)

grant_editor_access_any(self, principal, t) ==
    grant_role_any(self, principal, <<"EDITOR">>, t)

grant_user_access_any(self, principal, t) ==
    grant_role_any(self, principal, <<"USER">>, t)

grant_viewer_access_any(self, principal, t) ==
    grant_role_any(self, principal, <<"VIEWER">>, t)

\* Mutant: revoking validates nothing and reports nothing.
revoke_access_any_silent(self, principal, t) ==
    IF principal.kind = "Principal"
    THEN Returned(remove_allow_entry_silent(self, principal.val[1], t))
    ELSE Returned(self)

revoke_access_any(self, principal, t) == remove_allow_entry_any(self, principal, t)

clear_all_permissions_any(self, t) == Returned(clear_all_permissions(self, t))


\* ------------------------------------- the constructor, arguments of any type
\* datetime argument of another type (a str).
BadTime == -2

\* An object of the class `kind` (an identifier, a ResourceType member).
PyObj(kind) == [kind |-> kind, val |-> <<>>]

validate_required_fields(id, resource_type, resource_id, organization_id, owner_id) ==
    (IF ~Truthy(id) THEN <<"ID do controle de acesso e obrigatorio">> ELSE <<>>)
    \o (IF ~Truthy(resource_type) THEN <<"Tipo do recurso e obrigatorio">> ELSE <<>>)
    \o (IF ~Truthy(resource_id) THEN <<"ID do recurso e obrigatorio">> ELSE <<>>)
    \o (IF ~Truthy(organization_id) THEN <<"ID da organizacao e obrigatorio">> ELSE <<>>)
    \o (IF ~Truthy(owner_id) THEN <<"ID do proprietario e obrigatorio">> ELSE <<>>)

\* entries, created, updated are the fields as __init__ assigned them.
validate_types(id, resource_type, resource_id, organization_id, owner_id, entries, created, updated) ==
    (IF Truthy(id) /\ id.kind # "ResourceAccessControlId"
     THEN <<"ID do controle de acesso deve ser do tipo ResourceAccessControlId">>
     ELSE <<>>)
    \o (IF Truthy(resource_type) /\ resource_type.kind # "ResourceType"
        THEN <<"Tipo do recurso deve ser do tipo ResourceType">> ELSE <<>>)
    \o (IF Truthy(resource_id) /\ resource_id.kind # "ResourceId"
        THEN <<"ID do recurso deve ser do tipo ResourceId">> ELSE <<>>)
    \o (IF Truthy(organization_id) /\ organization_id.kind # "OrganizationId"
        THEN <<"ID da organizacao deve ser do tipo OrganizationId">> ELSE <<>>)
    \o (IF Truthy(owner_id) /\ owner_id.kind # "OwnerId"
        THEN <<"ID do proprietario deve ser do tipo OwnerId">> ELSE <<>>)
    \o (IF entries.kind # "list"
        THEN <<"Entradas de permissao devem ser uma lista">> ELSE <<>>)
    \o (IF Truthy(entries)
           /\ \E i \in 1..Len(entries.val[1]) : entries.val[1][i].kind # "AllowEntry"
        THEN <<"Todas as entradas de permissao devem ser do tipo AllowEntry">>
        ELSE <<>>)
    \o (IF created = BadTime THEN <<"Data de criacao deve ser do tipo datetime">> ELSE <<>>)
    \o (IF updated = BadTime THEN <<"Data de atualizacao deve ser do tipo datetime">> ELSE <<>>)

\* ResourceAccessControl(...) for arguments of any type: the object, or the
\* exception that leaves __init__.  The comparisons of _validate_business_rules
\* raise TypeError on a timestamp that is not a datetime, and its loop raises
\* AttributeError at an element without a `principal`.
ResourceAccessControl_new(id, resource_type, resource_id, organization_id, owner_id, allow_entries_arg, created_arg, updated_arg, t1, t2, t3) ==
    LET entries == IF Truthy(allow_entries_arg) THEN allow_entries_arg ELSE PyList(<<>>)
        created == IF created_arg = NoTime THEN t1 ELSE created_arg
        updated == IF updated_arg = NoTime THEN t2 ELSE updated_arg
        found == validate_required_fields(id, resource_type, resource_id,
                                          organization_id, owner_id)
                 \o validate_types(id, resource_type, resource_id, organization_id,
                                   owner_id, entries, created, updated)
        items == entries.val[1]
    IN  IF created = BadTime \/ updated = BadTime
        THEN [raised |-> TRUE, exc |-> "TypeError", obj |-> <<>>]
        ELSE IF \E i \in 1..Len(items) : items[i].kind # "AllowEntry"
        THEN [raised |-> TRUE, exc |-> "AttributeError", obj |-> <<>>]
        ELSE LET typed == [i \in 1..Len(items) |-> items[i].val[1]]
             IN  [raised |-> FALSE, exc |-> "",
                  obj |-> <<[allow_entries |-> typed,
                             created_at |-> created,
                             updated_at |-> updated,
                             errors |-> found \o validate_business_rules(
                                                     typed, created, updated, t3)]>>]


\* ------------------------------------------------------------- UnitOfWork
\* Sessions the session factory hands out.
MaxSessions == 3

\* An AsyncSession as the unit of work sees it: open or closed, whether a
\* transaction is pending, the last of commit/rollback/flush/refresh/
\* execute called on it ("" when none), whether it was closed with a
\* transaction still pending (close discards it), and how often commit was
\* called on it.
NewSession ==
    [closed |-> FALSE, in_transaction |-> FALSE, last |-> "", discarded |-> FALSE,
     commits |-> 0]

\* A UnitOfWork object: _session (0 for None, else the index of the session
\* in the sequence of sessions its factory has created).
NewUnitOfWork == [session |-> 0, sessions |-> <<>>]

\* A call that returned value (<<>> for None) / that raised exc.
Returns(uow, value) == [uow |-> uow, raised |-> "", value |-> value]
Raises(uow, exc) == [uow |-> uow, raised |-> exc, value |-> <<>>]

\* The session's own methods.  `fails` is the database refusing the
\* operation: the method raises and the transaction stays as it was.
Session_commit(s, fails) ==
    IF fails THEN [s EXCEPT !.last = "commit", !.commits = @ + 1]
    ELSE [s EXCEPT !.last = "commit", !.commits = @ + 1, !.in_transaction = FALSE]

Session_rollback(s, fails) ==
    IF fails THEN [s EXCEPT !.last = "rollback"]
    ELSE [s EXCEPT !.last = "rollback", !.in_transaction = FALSE]

\* flush, refresh and execute begin a transaction when none is pending.
Session_flush(s, fails) == [s EXCEPT !.last = "flush", !.in_transaction = TRUE]

Session_refresh(s, fails) == [s EXCEPT !.last = "refresh", !.in_transaction = TRUE]

Session_execute(s, fails) == [s EXCEPT !.last = "execute", !.in_transaction = TRUE]

Session_close(s) ==
    [s EXCEPT !.closed = TRUE, !.in_transaction = FALSE, !.discarded = s.in_transaction]

\* Mutant: entering again replaces the session.
UnitOfWork_aenter_again(uow) ==
    Returns([uow EXCEPT !.session = Len(uow.sessions) + 1,
                        !.sessions = Append(@, NewSession)], <<>>)

UnitOfWork_aenter(uow) ==
    IF uow.session # 0
    THEN Raises(uow, "RuntimeError")
    ELSE Returns([uow EXCEPT !.session = Len(uow.sessions) + 1,
                             !.sessions = Append(@, NewSession)], <<>>)

\* commit, rollback, flush, refresh: RuntimeError without a session, else the
\* session's method, whose exception passes through.
UnitOfWork_commit(uow, fails) ==
    IF uow.session = 0
    THEN Raises(uow, "RuntimeError")
    ELSE LET after == [uow EXCEPT !.sessions[uow.session] = Session_commit(@, fails)]
         IN  IF fails THEN Raises(after, "DBError") ELSE Returns(after, <<>>)

UnitOfWork_rollback(uow, fails) ==
    IF uow.session = 0
    THEN Raises(uow, "RuntimeError")
    ELSE LET after == [uow EXCEPT !.sessions[uow.session] = Session_rollback(@, fails)]
         IN  IF fails THEN Raises(after, "DBError") ELSE Returns(after, <<>>)

UnitOfWork_flush(uow, fails) ==
    IF uow.session = 0
    THEN Raises(uow, "RuntimeError")
    ELSE LET after == [uow EXCEPT !.sessions[uow.session] = Session_flush(@, fails)]
         IN  IF fails THEN Raises(after, "DBError") ELSE Returns(after, <<>>)

UnitOfWork_refresh(uow, fails) ==
    IF uow.session = 0
    THEN Raises(uow, "RuntimeError")
    ELSE LET after == [uow EXCEPT !.sessions[uow.session] = Session_refresh(@, fails)]
         IN  IF fails THEN Raises(after, "DBError") ELSE Returns(after, <<>>)

\* The session property.
UnitOfWork_session(uow) ==
    IF uow.session = 0
    THEN Raises(uow, "RuntimeError")
    ELSE Returns(uow, <<uow.session>>)

\* __aexit__(exc_type, ...): exc is the exception the block raised ("" for
\* none).  The result's `raised` is what leaves the `async with`: the
\* rollback's exception if it raised, else the block's own.
UnitOfWork_aexit(uow, exc, fails) ==
    IF uow.session = 0
    THEN Raises(uow, exc)
    ELSE LET tried == IF exc # "" THEN UnitOfWork_rollback(uow, fails)
                      ELSE Returns(uow, <<>>)
             closed == [tried.uow EXCEPT !.sessions[uow.session] = Session_close(@),
                                         !.session = 0]
         IN  Raises(closed, IF tried.raised # "" THEN tried.raised ELSE exc)


\* ----------------------------------------------------------------- get_uow
\* Mutant: a pending transaction is committed when the handler is done.
get_uow_after_yield_commit(uow, fails) ==
    IF uow.sessions[uow.session].in_transaction
    THEN UnitOfWork_commit(uow, fails)
    ELSE Returns(uow, <<>>)

\* The lines after `yield uow`: the handler has returned.
get_uow_after_yield(uow, fails) ==
    IF uow.sessions[uow.session].in_transaction
    THEN UnitOfWork_rollback(uow, fails)
    ELSE Returns(uow, <<>>)

\* The `except Exception` block: rollback, then `raise` of the exception
\* caught; a rollback that raises leaves with its own exception.
get_uow_except(uow, exc, fails) ==
    LET out == UnitOfWork_rollback(uow, fails)
    IN  IF out.raised # "" THEN out ELSE Raises(out.uow, exc)


\* ------------------------------------------ organizations: repository, use cases
\* OrganizationOutputDTO(success, errors).
OrganizationOutputDTO(success, errors) == [success |-> success, errors |-> errors]

\* The organizations table as one session sees it: the ids of its rows.
\* OrganizationRepositoryImpl.get_organization_by_id: the entity (its id
\* stands for it), None as <<>>, or the database error raised.
get_organization_by_id(rows, organization_id, fails) ==
    IF fails
    THEN [raised |-> "SQLAlchemyError", value |-> <<>>]
    ELSE IF organization_id.value.uuid \in rows
    THEN [raised |-> "", value |-> <<organization_id.value.uuid>>]
    ELSE [raised |-> "", value |-> <<>>]

\* OrganizationRepositoryImpl.delete_organization: session.get, session.delete,
\* session.flush.  `fails` is the flush refused (IntegrityError); `issued`
\* tells that session.delete was called.  The method has no return
\* statement: it returns None.
delete_organization(rows, organization_id, fails) ==
    IF organization_id.value.uuid \notin rows
    THEN [rows |-> rows, raised |-> "ValueError", value |-> PyNone, issued |-> FALSE]
    ELSE IF fails
    THEN [rows |-> rows, raised |-> "IntegrityError", value |-> PyNone, issued |-> TRUE]
    ELSE [rows |-> rows \ {organization_id.value.uuid}, raised |-> "",
          value |-> PyNone, issued |-> TRUE]


\* OrganizationRepositoryImpl.get_organization_by_slug over the committed
\* rows one session reads: the entity with that slug, None as <<>>.
get_organization_by_slug(rows, slug) ==
    LET found == {r \in rows : r.slug = slug}
    IN  IF found = {} THEN <<>> ELSE <<CHOOSE r \in found : TRUE>>

\* The unique constraint dropped: the insert goes through whatever is stored.
create_organization_unconstrained(rows, organization) ==
    [raised |-> "", value |-> <<organization>>]

\* OrganizationRepositoryImpl.create_organization: add and flush.  The
\* unique index on slug refuses a slug some committed row has, and the
\* IntegrityError is logged and re-raised; else the row is flushed, not
\* committed, and the entity comes back.
create_organization(rows, organization) ==
    IF \E r \in rows : r.slug = organization.slug
    THEN [raised |-> "IntegrityError", value |-> <<>>]
    ELSE [raised |-> "", value |-> <<organization>>]


\* --------------------------------------------------------------------- state
VARIABLES
    allow_entries,  \* ResourceAccessControl._allow_entries
    created_at,     \* ResourceAccessControl._created_at
    updated_at,     \* ResourceAccessControl._updated_at
    errors,         \* Entity._notification._errors
    now,            \* the last value datetime.now() returned
    call,           \* the last call made on the aggregate: [op, principal]
    ae,             \* an AllowEntry under construction and its queries
    caller,         \* the calling code: arguments it prepared, what came back
    heap            \* the list objects shared between callers and aggregates

vars == <<allow_entries, created_at, updated_at, errors, now, call, ae, caller, heap>>

Self == [allow_entries |-> allow_entries, updated_at |-> updated_at, errors |-> errors]

NoPrincipal == Principal("", "")

Call(op, principal) == [op |-> op, principal |-> principal]

\* No AllowEntry is being constructed apart from the aggregate's calls.
NoObj == [raised |-> FALSE, error |-> "", value |-> <<>>]

AeIdle == [pc |-> "idle", principal |-> NoPrincipal, roles |-> <<>>,
           obj |-> NoObj, answers |-> <<>>]

\* The calling code holds nothing of interest.
CallerIdle == [pc |-> "idle"]

\* No list object is tracked.
NoHeap == [lists |-> <<>>, self |-> 0, other |-> 0, held |-> <<>>]

\* The clock does not run backwards: a call at clock value t.
ClockReads == now..MaxClock

\* The aggregate becomes `self` by a call, labelled `label`, made at time t.
Becomes(self, label, t) ==
    /\ Len(self.allow_entries) <= MaxEntries
    /\ Len(self.errors) > Len(errors) => Len(errors) < MaxErrors
    /\ allow_entries' = self.allow_entries
    /\ updated_at' = self.updated_at
    /\ errors' = self.errors
    /\ now' = t
    /\ call' = label
    /\ UNCHANGED <<created_at, ae, caller, heap>>

TimeArgs == {NoTime} \cup (0..MaxClock)

\* The state after ResourceAccessControl(id, ..., allow_entries, created_at,
\* updated_at) with the arguments drawn from the given sets.
Constructed(entry_lists, created_args, updated_args) ==
    \E entries_arg \in entry_lists, created_arg \in created_args,
       updated_arg \in updated_args :
        \E t2 \in 0..MaxClock :
            \E t3 \in t2..MaxClock :
                LET obj == ResourceAccessControl_init(entries_arg, created_arg,
                                                      updated_arg, 0, t2, t3)
                IN  /\ allow_entries = obj.allow_entries
                    /\ created_at = obj.created_at
                    /\ updated_at = obj.updated_at
                    /\ errors = obj.errors
                    /\ now = t3
                    /\ call = Call("__init__", NoPrincipal)
                    /\ ae = AeIdle
                    /\ caller = CallerIdle
                    /\ heap = NoHeap

\* Constructed with the default timestamps.
Init == Constructed(SeqsUpTo(AllowEntries, MaxInit), {NoTime}, {NoTime})

\* The caller builds an AllowEntry (a construction that raises makes no call).
AddAllowEntry ==
    \E allow_entry \in AllowEntries, t \in ClockReads :
        Becomes(add_allow_entry(Self, allow_entry, t),
                Call("add_allow_entry", allow_entry.principal), t)

RemoveAllowEntry ==
    \E principal \in Principals, t \in ClockReads :
        Becomes(remove_allow_entry(Self, principal, t),
                Call("remove_allow_entry", principal), t)

UpdateAllowEntry ==
    \E principal \in Principals, new_roles \in RoleLists, t \in ClockReads :
        Becomes(update_allow_entry(Self, principal, new_roles, t),
                Call("update_allow_entry", principal), t)

GrantFullAccess ==
    \E principal \in Principals, t \in ClockReads :
        Becomes(grant_full_access(Self, principal, t),
                Call("grant_full_access", principal), t)

GrantEditorAccess ==
    \E principal \in Principals, t \in ClockReads :
        Becomes(grant_editor_access(Self, principal, t),
                Call("grant_editor_access", principal), t)

GrantUserAccess ==
    \E principal \in Principals, t \in ClockReads :
        Becomes(grant_user_access(Self, principal, t),
                Call("grant_user_access", principal), t)

GrantViewerAccess ==
    \E principal \in Principals, t \in ClockReads :
        Becomes(grant_viewer_access(Self, principal, t),
                Call("grant_viewer_access", principal), t)

RevokeAccess ==
    \E principal \in Principals, t \in ClockReads :
        Becomes(revoke_access(Self, principal, t),
                Call("revoke_access", principal), t)

ClearAllPermissions ==
    \E t \in ClockReads :
        Becomes(clear_all_permissions(Self, t),
                Call("clear_all_permissions", NoPrincipal), t)

ClearNotifications ==
    \E t \in ClockReads :
        Becomes(clear_notifications(Self),
                Call("clear_notifications", NoPrincipal), t)

Next ==
    \/ AddAllowEntry
    \/ RemoveAllowEntry
    \/ UpdateAllowEntry
    \/ GrantFullAccess
    \/ GrantEditorAccess
    \/ GrantUserAccess
    \/ GrantViewerAccess
    \/ RevokeAccess
    \/ ClearAllPermissions
    \/ ClearNotifications

\* Aggregates constructed with default timestamps, then any calls.
Spec == Init /\ [][Next]_vars

\* Constructed with any timestamps.
InitCtor == Constructed(SeqsUpTo(AllowEntries, MaxInit), TimeArgs, TimeArgs)

SpecCtor == InitCtor /\ [][Next]_vars

\* Constructed from a list with pairwise distinct principals.
NoDuplicatePrincipals(entries) ==
    \A i, j \in 1..Len(entries) :
        i # j => ~Principal_eq(entries[i].principal, entries[j].principal)

InitDistinct == Init /\ NoDuplicatePrincipals(allow_entries)

SpecDistinct == InitDistinct /\ [][Next]_vars

\* ------------------------------------------------- AllowEntry on its own
\* A caller constructs AllowEntry(principal, roles) and, when the
\* construction returns, asks the object its capability predicates.
Capabilities(entry) ==
    [can_view |-> AllowEntry_can_view(entry),
     can_use |-> AllowEntry_can_use(entry),
     can_edit |-> AllowEntry_can_edit(entry),
     can_delete |-> AllowEntry_can_delete(entry),
     can_share |-> AllowEntry_can_share(entry),
     has_full_access |-> AllowEntry_has_full_access(entry)]

InitEntry ==
    /\ \E principal \in Principals, roles \in SeqsUpTo(ResourceRole, MaxRoleArgs) :
        ae = [pc |-> "args", principal |-> principal, roles |-> roles,
              obj |-> NoObj, answers |-> <<>>]
    /\ allow_entries = <<>>
    /\ created_at = 0
    /\ updated_at = 0
    /\ errors = <<>>
    /\ now = 0
    /\ call = Call("__init__", NoPrincipal)
    /\ caller = CallerIdle
    /\ heap = NoHeap

ConstructAllowEntry ==
    /\ ae.pc = "args"
    /\ ae' = [ae EXCEPT !.pc = "built", !.obj = AllowEntry(ae.principal, ae.roles)]
    /\ UNCHANGED <<allow_entries, created_at, updated_at, errors, now, call, caller, heap>>

QueryAllowEntry ==
    /\ ae.pc = "built"
    /\ ~ae.obj.raised
    /\ ae' = [ae EXCEPT !.pc = "queried", !.answers = Capabilities(ae.obj.value[1])]
    /\ UNCHANGED <<allow_entries, created_at, updated_at, errors, now, call, caller, heap>>

NextEntry == ConstructAllowEntry \/ QueryAllowEntry

SpecEntry == InitEntry /\ [][NextEntry]_vars

\* ------------------------------------------- calls with arguments of any type
\* The principal a call is labelled with.
PrincipalOf(arg) ==
    IF arg.kind = "Principal" THEN arg.val[1]
    ELSE IF arg.kind = "AllowEntry" THEN arg.val[1].principal
    ELSE NoPrincipal

\* A call made at time t came back as `out`: it returned, or an exception
\* reached the caller.
Outcome(out, op, arg, t) ==
    /\ Len(out.self.allow_entries) <= MaxEntries
    /\ Len(out.self.errors) > Len(errors) => Len(errors) < MaxErrors
    /\ allow_entries' = out.self.allow_entries
    /\ updated_at' = out.self.updated_at
    /\ errors' = out.self.errors
    /\ now' = t
    /\ call' = Call(op, PrincipalOf(arg))
    /\ caller' = [pc |-> IF out.raised THEN "raised" ELSE "returned", arg |-> arg.kind]
    /\ UNCHANGED <<created_at, ae, heap>>

AddAllowEntryAny ==
    \E arg \in AllowEntryArgs, t \in ClockReads :
        Outcome(add_allow_entry_any(Self, arg, t), "add_allow_entry", arg, t)

RemoveAllowEntryAny ==
    \E arg \in PrincipalArgs, t \in ClockReads :
        Outcome(remove_allow_entry_any(Self, arg, t), "remove_allow_entry", arg, t)

UpdateAllowEntryAny ==
    \E arg \in PrincipalArgs, new_roles \in RoleListArgs, t \in ClockReads :
        Outcome(update_allow_entry_any(Self, arg, new_roles, t),
                "update_allow_entry", arg, t)

GrantFullAccessAny ==
    \E arg \in PrincipalArgs, t \in ClockReads :
        Outcome(grant_full_access_any(Self, arg, t), "grant_full_access", arg, t)

GrantEditorAccessAny ==
    \E arg \in PrincipalArgs, t \in ClockReads :
        Outcome(grant_editor_access_any(Self, arg, t), "grant_editor_access", arg, t)

GrantUserAccessAny ==
    \E arg \in PrincipalArgs, t \in ClockReads :
        Outcome(grant_user_access_any(Self, arg, t), "grant_user_access", arg, t)

GrantViewerAccessAny ==
    \E arg \in PrincipalArgs, t \in ClockReads :
        Outcome(grant_viewer_access_any(Self, arg, t), "grant_viewer_access", arg, t)

RevokeAccessAny ==
    \E arg \in PrincipalArgs, t \in ClockReads :
        Outcome(revoke_access_any(Self, arg, t), "revoke_access", arg, t)

ClearAllPermissionsAny ==
    \E t \in ClockReads :
        Outcome(clear_all_permissions_any(Self, t), "clear_all_permissions", PyNone, t)

NextAny ==
    \/ AddAllowEntryAny
    \/ RemoveAllowEntryAny
    \/ UpdateAllowEntryAny
    \/ GrantFullAccessAny
    \/ GrantEditorAccessAny
    \/ GrantUserAccessAny
    \/ GrantViewerAccessAny
    \/ RevokeAccessAny
    \/ ClearAllPermissionsAny

\* Aggregates constructed with default timestamps, then calls whose
\* arguments are of any type.
SpecAny == Init /\ [][NextAny]_vars

\* ----------------------------------- construction with arguments of any type
\* At most this many of the five identity arguments are None or mistyped.
MaxBadFields == 2

FieldNames == {"id", "resource_type", "resource_id", "organization_id", "owner_id"}

FieldClass ==
    [id |-> "ResourceAccessControlId", resource_type |-> "ResourceType",
     resource_id |-> "ResourceId", organization_id |-> "OrganizationId",
     owner_id |-> "OwnerId"]

\* The identity arguments: each the right object, None, or a str.
FieldArgs ==
    {f \in [FieldNames -> {"ok", "None", "str"}] :
        Cardinality({n \in FieldNames : f[n] # "ok"}) <= MaxBadFields}

FieldValue(f, n) ==
    IF f[n] = "ok" THEN PyObj(FieldClass[n])
    ELSE IF f[n] = "None" THEN PyNone ELSE PyStr

\* The elements of the allow_entries argument: two entries of one principal,
\* None, a str.
ElementArgs ==
    {PyNone, PyStr,
     PyAllowEntry([principal |-> Principal("USER", "id1"), roles |-> <<"VIEWER">>]),
     PyAllowEntry([principal |-> Principal("USER", "id1"), roles |-> <<"EDITOR">>])}

EntryListArgs == {PyNone} \cup {PyList(l) : l \in SeqsUpTo(ElementArgs, MaxInit)}

TimeArgsAny == TimeArgs \cup {BadTime}

\* The caller has prepared the arguments; no object exists yet.
InitNew ==
    /\ \E f \in FieldArgs, entries_arg \in EntryListArgs,
          created_arg \in TimeArgsAny, updated_arg \in TimeArgsAny,
          t2 \in 0..MaxClock :
        \E t3 \in t2..MaxClock :
            caller = [pc |-> "args", fields |-> f, allow_entries |-> entries_arg,
                      created_at |-> created_arg, updated_at |-> updated_arg,
                      t2 |-> t2, t3 |-> t3, exc |-> "", valid |-> FALSE]
    /\ allow_entries = <<>>
    /\ created_at = NoTime
    /\ updated_at = NoTime
    /\ errors = <<>>
    /\ now = 0
    /\ call = Call("", NoPrincipal)
    /\ ae = AeIdle
    /\ heap = NoHeap

ConstructAny ==
    /\ caller.pc = "args"
    /\ LET f == caller.fields
           out == ResourceAccessControl_new(
                      FieldValue(f, "id"), FieldValue(f, "resource_type"),
                      FieldValue(f, "resource_id"), FieldValue(f, "organization_id"),
                      FieldValue(f, "owner_id"), caller.allow_entries,
                      caller.created_at, caller.updated_at, 0, caller.t2, caller.t3)
       IN  IF out.raised
           THEN /\ caller' = [caller EXCEPT !.pc = "raised", !.exc = out.exc]
                /\ UNCHANGED <<allow_entries, created_at, updated_at, errors>>
           ELSE /\ caller' = [caller EXCEPT !.pc = "constructed"]
                /\ allow_entries' = out.obj[1].allow_entries
                /\ created_at' = out.obj[1].created_at
                /\ updated_at' = out.obj[1].updated_at
                /\ errors' = out.obj[1].errors
    /\ now' = caller.t3
    /\ call' = Call("__init__", NoPrincipal)
    /\ UNCHANGED <<ae, heap>>

\* The caller asks the new object is_valid().
IsValidAny ==
    /\ caller.pc = "constructed"
    /\ caller' = [caller EXCEPT !.pc = "checked", !.valid = is_valid(Self)]
    /\ call' = Call("is_valid", NoPrincipal)
    /\ UNCHANGED <<allow_entries, created_at, updated_at, errors, now, ae, heap>>

NextNew == ConstructAny \/ IsValidAny

SpecNew == InitNew /\ [][NextNew]_vars

\* ------------------------------------------------ list objects and aliasing
\* heap.lists[a] is the content of the list object at address a; heap.self
\* and heap.other are the addresses in `_allow_entries` of two aggregates (0
\* before construction); heap.held are the lists the calling code holds.
\* allow_entries is the content of the first aggregate's collection.

\* Most list objects tracked.
MaxLists == 3

\* The entries the calling code puts in its lists.
AliasEntries ==
    {[principal |-> Principal("USER", "id1"), roles |-> <<"VIEWER">>],
     [principal |-> Principal("TEAM", "id1"), roles |-> <<"EDITOR">>]}

\* `allow_entries or []`: the argument object itself unless it is empty,
\* then a new empty list.  The heap and the address assigned.
allow_entries_or_new(h, addr) ==
    IF Len(h.lists[addr]) > 0
    THEN [heap |-> h, addr |-> addr]
    ELSE [heap |-> [h EXCEPT !.lists = Append(@, <<>>)], addr |-> Len(h.lists) + 1]

\* A method hands the calling code a newly built list.
ReturnsNewList(content, from, op) ==
    /\ Len(heap.lists) < MaxLists
    /\ heap' = [heap EXCEPT !.lists = Append(@, content),
                            !.held = Append(@, [addr |-> Len(heap.lists) + 1,
                                                from |-> from])]
    /\ call' = Call(op, NoPrincipal)
    /\ UNCHANGED <<allow_entries, created_at, updated_at, errors, now, ae, caller>>

\* The calling code builds a list of entries.
InitAlias ==
    /\ \E l \in SeqsUpTo(AliasEntries, MaxInit) :
        heap = [lists |-> <<l>>, self |-> 0, other |-> 0,
                held |-> <<[addr |-> 1, from |-> "allow_entries argument"]>>]
    /\ allow_entries = <<>>
    /\ created_at = 0
    /\ updated_at = 0
    /\ errors = <<>>
    /\ now = 0
    /\ call = Call("", NoPrincipal)
    /\ ae = AeIdle
    /\ caller = [pc |-> "idle", before |-> <<>>]

\* ResourceAccessControl(..., allow_entries=<the list at address 1>).
ConstructFirst ==
    /\ heap.self = 0
    /\ LET r == allow_entries_or_new(heap, 1)
           obj == ResourceAccessControl_init(r.heap.lists[r.addr], NoTime, NoTime, 0, 0, 0)
       IN  /\ heap' = [r.heap EXCEPT !.self = r.addr]
           /\ allow_entries' = obj.allow_entries
           /\ errors' = obj.errors
    /\ call' = Call("__init__", NoPrincipal)
    /\ UNCHANGED <<created_at, updated_at, now, ae, caller>>

\* A second aggregate is constructed from the same list.
ConstructSecond ==
    /\ heap.self # 0
    /\ heap.other = 0
    /\ Len(heap.lists) < MaxLists
    /\ LET r == allow_entries_or_new(heap, 1)
       IN  heap' = [r.heap EXCEPT !.other = r.addr]
    /\ call' = Call("other.__init__", NoPrincipal)
    /\ UNCHANGED <<allow_entries, created_at, updated_at, errors, now, ae, caller>>

\* The allow_entries property: self._allow_entries.copy().
GetAllowEntries ==
    /\ heap.self # 0
    /\ ReturnsNewList(heap.lists[heap.self], "allow_entries property", "allow_entries")

\* get_principal_roles: entry.roles is self._roles.copy(), or a new [].
GetPrincipalRoles ==
    /\ heap.self # 0
    /\ \E p \in Principals :
           ReturnsNewList(get_principal_roles(Self, p), "get_principal_roles",
                          "get_principal_roles")

\* get_all_principals: a list comprehension.
GetAllPrincipals ==
    /\ heap.self # 0
    /\ ReturnsNewList(get_all_principals(Self), "get_all_principals",
                      "get_all_principals")

\* The calling code changed the list at address a to `content`.
CallerMutates(a, content, op) ==
    /\ heap.self # 0
    /\ heap' = [heap EXCEPT !.lists[a] = content]
    /\ allow_entries' = heap'.lists[heap.self]
    /\ caller' = [pc |-> "mutated", before |-> allow_entries]
    /\ call' = Call(op, NoPrincipal)
    /\ UNCHANGED <<created_at, updated_at, errors, now, ae>>

\* The calling code appends to a list it holds: an entry, a principal or a
\* role, after what the list holds.
CallerAppend ==
    \E i \in 1..Len(heap.held) :
        LET a == heap.held[i].addr
            from == heap.held[i].from
            items == IF from = "get_principal_roles" THEN {"FULL_ACCESS"}
                     ELSE IF from = "get_all_principals" THEN Principals
                     ELSE AliasEntries
        IN  /\ Len(heap.lists[a]) < MaxEntries
            /\ \E x \in items :
                   CallerMutates(a, Append(heap.lists[a], x), "list.append")

\* The calling code empties a list it holds.
CallerClear ==
    \E i \in 1..Len(heap.held) :
        /\ Len(heap.lists[heap.held[i].addr]) > 0
        /\ CallerMutates(heap.held[i].addr, <<>>, "list.clear")

\* clear_all_permissions() on the second aggregate: its list .clear()ed.
OtherClearAllPermissions ==
    /\ heap.other # 0
    /\ Len(heap.lists[heap.other]) > 0
    /\ CallerMutates(heap.other, <<>>, "other.clear_all_permissions")

NextAlias ==
    \/ ConstructFirst
    \/ ConstructSecond
    \/ GetAllowEntries
    \/ GetPrincipalRoles
    \/ GetAllPrincipals
    \/ CallerAppend
    \/ CallerClear
    \/ OtherClearAllPermissions

SpecAlias == InitAlias /\ [][NextAlias]_vars

\* ------------------------------------------------------------------ queries
\* Every query call.
Queries ==
    {Query(op, p, "") :
        op \in {"has_access", "can_view", "can_use", "can_edit", "can_delete",
                "can_share", "get_principal_roles"},
        p \in Principals}
    \cup {Query("get_principals_with_role", NoPrincipal, r) : r \in ResourceRole}
    \cup {Query(op, NoPrincipal, "") :
            op \in {"get_all_principals", "get_principals_with_full_access",
                    "get_principals_with_edit_access", "get_permissions_summary"}}

\* The calling code asks a query and keeps the answer; `times` counts how
\* often it has asked this very query in a row (up to two).
Ask ==
    \E q \in Queries :
        LET r == ask(Self, q)
            repeated == caller.pc = "asked" /\ caller.query = q
        IN  /\ allow_entries' = r.self.allow_entries
            /\ updated_at' = r.self.updated_at
            /\ errors' = r.self.errors
            /\ caller' = [pc |-> "asked", query |-> q, result |-> r.result,
                          times |-> IF repeated THEN 2 ELSE 1,
                          first |-> IF repeated THEN <<caller.result>> ELSE <<>>]
            /\ call' = Call(q.op, q.principal)
            /\ UNCHANGED <<created_at, now, ae, heap>>

NextQuery == Ask

\* Aggregates constructed with default timestamps, then queries only.
SpecQuery == Init /\ [][NextQuery]_vars

\* ----------------------------------------------- Principal objects by identity
\* Principal objects built per call.
MaxObjects == 2

\* Principal objects: the values of Principals, each built MaxObjects times
\* (oid tells the objects of one value apart).
PrincipalObjects ==
    {[principal_type |-> p.principal_type, principal_id |-> p.principal_id, oid |-> o] :
        p \in Principals, o \in 1..MaxObjects}

\* The role lists the calls on Principal objects use.
ObjectRoleLists == {<<"USER">>, <<"EDITOR", "USER">>, <<"USER", "VIEWER">>}

InitObjects == Init /\ allow_entries = <<>>

AddAllowEntryObject ==
    \E principal \in PrincipalObjects, t \in ClockReads :
        Becomes(add_allow_entry(Self, AllowEntry(principal, <<"USER">>).value[1], t),
                Call("add_allow_entry", principal), t)

GrantViewerAccessObject ==
    \E principal \in PrincipalObjects, t \in ClockReads :
        Becomes(grant_viewer_access(Self, principal, t),
                Call("grant_viewer_access", principal), t)

UpdateAllowEntryObject ==
    \E principal \in PrincipalObjects, new_roles \in ObjectRoleLists, t \in ClockReads :
        Becomes(update_allow_entry(Self, principal, new_roles, t),
                Call("update_allow_entry", principal), t)

RemoveAllowEntryObject ==
    \E principal \in PrincipalObjects, t \in ClockReads :
        Becomes(remove_allow_entry(Self, principal, t),
                Call("remove_allow_entry", principal), t)

NextObjects ==
    \/ AddAllowEntryObject
    \/ GrantViewerAccessObject
    \/ UpdateAllowEntryObject
    \/ RemoveAllowEntryObject

\* An empty aggregate, then calls that each build their own Principal object.
SpecObjects == InitObjects /\ [][NextObjects]_vars

\* ------------------------------------------------------------------- BaseId
\* The 128-bit UUIDs the caller spells out, and those uuid4() draws.
MaxUuids == 2
MaxFresh == 2

GivenUuids == 1..MaxUuids
FreshUuids == (MaxUuids + 1)..(MaxUuids + MaxFresh)

\* The spellings of a UUID that uuid.UUID accepts: lower-case with hyphens (the
\* one str(uuid) gives), upper-case with hyphens, lower-case without hyphens.
UuidForms == {"lower", "upper", "hex"}

\* A string: the UUID it denotes (0 when it denotes none) and its spelling.
UuidText(u, form) == [kind |-> "str", uuid |-> u, form |-> form]
EmptyText == [kind |-> "str", uuid |-> 0, form |-> "empty"]
InvalidText == [kind |-> "str", uuid |-> 0, form |-> "not-a-uuid"]
NoValue == [kind |-> "None", uuid |-> 0, form |-> ""]

BaseIdArgs ==
    {UuidText(u, f) : u \in GivenUuids, f \in UuidForms}
        \cup {EmptyText, InvalidText, NoValue}

\* bool(value): None and "" are falsy.
ValueGiven(value) == value.kind = "str" /\ value.form # "empty"

\* uuid.UUID(text): the 128-bit value, or ValueError.
uuid_UUID(text) ==
    IF text.uuid = 0
    THEN [raised |-> TRUE, int |-> 0]
    ELSE [raised |-> FALSE, int |-> text.uuid]

\* BaseId(value), uuid4() drawing fresh: the string is stored as given, a
\* missing value is replaced by str(uuid4()), and _validate only parses it.
BaseId_init(value, fresh) ==
    LET stored == IF ValueGiven(value) THEN value ELSE UuidText(fresh, "lower")
    IN  IF uuid_UUID(stored).raised
        THEN [raised |-> TRUE, exc |-> "ValueError: Invalid UUID format", obj |-> <<>>]
        ELSE [raised |-> FALSE, exc |-> "", obj |-> <<[value |-> stored]>>]

BaseId_eq(a, b) == a.value = b.value

\* What __hash__ hashes: the stored string.
BaseId_hash(a) == a.value

InitId ==
    /\ Init
    /\ allow_entries = <<>>

\* The caller builds an identifier.
NewFirstId ==
    /\ caller.pc = "idle"
    /\ \E value \in BaseIdArgs, fresh \in FreshUuids :
           caller' = [pc |-> "one", args |-> <<value>>,
                      built |-> <<BaseId_init(value, fresh)>>, drawn |-> {fresh}]
    /\ UNCHANGED <<allow_entries, created_at, updated_at, errors, now, call, ae, heap>>

\* The caller builds a second one; uuid4() does not repeat itself.
NewSecondId ==
    /\ caller.pc = "one"
    /\ \E value \in BaseIdArgs, fresh \in FreshUuids \ caller.drawn :
           caller' = [pc |-> "two", args |-> Append(caller.args, value),
                      built |-> Append(caller.built, BaseId_init(value, fresh)),
                      drawn |-> caller.drawn \cup {fresh}]
    /\ UNCHANGED <<allow_entries, created_at, updated_at, errors, now, call, ae, heap>>

\* The caller compares the two identifiers and their hashes.
CompareIds ==
    /\ caller.pc = "two"
    /\ ~caller.built[1].raised
    /\ ~caller.built[2].raised
    /\ LET a == caller.built[1].obj[1]
           b == caller.built[2].obj[1]
       IN  caller' = [pc |-> "compared", args |-> caller.args, built |-> caller.built,
                      drawn |-> caller.drawn, eq |-> BaseId_eq(a, b),
                      hash_eq |-> (BaseId_hash(a) = BaseId_hash(b))]
    /\ UNCHANGED <<allow_entries, created_at, updated_at, errors, now, call, ae, heap>>

NextId ==
    \/ NewFirstId
    \/ NewSecondId
    \/ CompareIds

SpecId == InitId /\ [][NextId]_vars

\* ------------------------------------------- the aggregate with all its fields
\* The identity arguments the callers construct aggregates with.
IdentityArgs ==
    [id : {"rac1", "rac2"}, resource_type : {"AGENTS"},
     resource_id : {"res1"}, organization_id : {"org1"}, owner_id : {"own1"}]

\* The whole object: the identity fields and created_at beside the fields the
\* mutators assign.
SelfWhole ==
    [id |-> heap.fields.id,
     resource_type |-> heap.fields.resource_type,
     resource_id |-> heap.fields.resource_id,
     organization_id |-> heap.fields.organization_id,
     owner_id |-> heap.fields.owner_id,
     created_at |-> created_at,
     allow_entries |-> allow_entries,
     updated_at |-> updated_at,
     errors |-> errors]

\* The identity fields of an object.
IdentityOf(self) ==
    [id |-> self.id, resource_type |-> self.resource_type,
     resource_id |-> self.resource_id, organization_id |-> self.organization_id,
     owner_id |-> self.owner_id]

\* ResourceAccessControl(given..., allow_entries, created_at): the caller keeps
\* what it passed (created_at as the constructor took it: the clock's value
\* when the argument was omitted).
InitWhole ==
    \E given \in IdentityArgs, entries_arg \in SeqsUpTo(AllowEntries, 1),
       created_arg \in TimeArgs, t2 \in 0..MaxClock :
        \E t3 \in t2..MaxClock :
            LET obj == ResourceAccessControl_init(entries_arg, created_arg,
                                                  NoTime, 0, t2, t3)
            IN  /\ allow_entries = obj.allow_entries
                /\ created_at = obj.created_at
                /\ updated_at = obj.updated_at
                /\ errors = obj.errors
                /\ now = t3
                /\ call = Call("__init__", NoPrincipal)
                /\ ae = AeIdle
                /\ heap = [fields |-> given]
                /\ caller = [pc |-> "constructed", given |-> given,
                             created_at |-> IF created_arg = NoTime THEN 0 ELSE created_arg,
                             read |-> <<>>]

\* A method has taken the whole object to post.
Operates(post, label, t) ==
    /\ Len(post.allow_entries) <= MaxEntries
    /\ Len(post.errors) > Len(errors) => Len(errors) < MaxErrors
    /\ allow_entries' = post.allow_entries
    /\ updated_at' = post.updated_at
    /\ errors' = post.errors
    /\ created_at' = post.created_at
    /\ heap' = [fields |-> IdentityOf(post)]
    /\ now' = t
    /\ call' = label
    /\ UNCHANGED <<ae, caller>>

AddAllowEntryWhole ==
    \E allow_entry \in AllowEntries, t \in ClockReads :
        Operates(add_allow_entry(SelfWhole, allow_entry, t),
                 Call("add_allow_entry", allow_entry.principal), t)

RemoveAllowEntryWhole ==
    \E principal \in Principals, t \in ClockReads :
        Operates(remove_allow_entry(SelfWhole, principal, t),
                 Call("remove_allow_entry", principal), t)

UpdateAllowEntryWhole ==
    \E principal \in Principals, new_roles \in RoleLists, t \in ClockReads :
        Operates(update_allow_entry(SelfWhole, principal, new_roles, t),
                 Call("update_allow_entry", principal), t)

GrantFullAccessWhole ==
    \E principal \in Principals, t \in ClockReads :
        Operates(grant_full_access(SelfWhole, principal, t),
                 Call("grant_full_access", principal), t)

GrantEditorAccessWhole ==
    \E principal \in Principals, t \in ClockReads :
        Operates(grant_editor_access(SelfWhole, principal, t),
                 Call("grant_editor_access", principal), t)

GrantUserAccessWhole ==
    \E principal \in Principals, t \in ClockReads :
        Operates(grant_user_access(SelfWhole, principal, t),
                 Call("grant_user_access", principal), t)

GrantViewerAccessWhole ==
    \E principal \in Principals, t \in ClockReads :
        Operates(grant_viewer_access(SelfWhole, principal, t),
                 Call("grant_viewer_access", principal), t)

RevokeAccessWhole ==
    \E principal \in Principals, t \in ClockReads :
        Operates(revoke_access(SelfWhole, principal, t),
                 Call("revoke_access", principal), t)

ClearAllPermissionsWhole ==
    \E t \in ClockReads :
        Operates(clear_all_permissions(SelfWhole, t),
                 Call("clear_all_permissions", NoPrincipal), t)

ClearNotificationsWhole ==
    \E t \in ClockReads :
        Operates(clear_notifications(SelfWhole),
                 Call("clear_notifications", NoPrincipal), t)

\* The caller reads the six read-only properties.
ReadProperties ==
    /\ caller.pc \in {"constructed", "read"}
    /\ caller' = [caller EXCEPT
                    !.pc = "read",
                    !.read = <<[fields |-> IdentityOf(SelfWhole),
                                created_at |-> SelfWhole.created_at]>>]
    /\ call' = Call("properties", NoPrincipal)
    /\ UNCHANGED <<allow_entries, created_at, updated_at, errors, now, ae, heap>>

NextWhole ==
    \/ AddAllowEntryWhole
    \/ RemoveAllowEntryWhole
    \/ UpdateAllowEntryWhole
    \/ GrantFullAccessWhole
    \/ GrantEditorAccessWhole
    \/ GrantUserAccessWhole
    \/ GrantViewerAccessWhole
    \/ RevokeAccessWhole
    \/ ClearAllPermissionsWhole
    \/ ClearNotificationsWhole
    \/ ReadProperties

SpecWhole == InitWhole /\ [][NextWhole]_vars

\* ------------------------------------------------- a client of a UnitOfWork
\* Commits a client issues on one session.
MaxCommits == 2

\* The exception a block under `async with uow` may raise ("" for none).
BlockExceptions == {"", "HandlerError"}

\* A fresh UnitOfWork; the aggregate's variables play no part.
InitUow ==
    /\ allow_entries = <<>>
    /\ created_at = 0
    /\ updated_at = 0
    /\ errors = <<>>
    /\ now = 0
    /\ call = Call("", NoPrincipal)
    /\ ae = AeIdle
    /\ heap = NewUnitOfWork
    /\ caller = [pc |-> "idle", op |-> "", had_session |-> FALSE,
                 raised |-> "", value |-> <<>>]

\* The client has called `op` and got `out`.
Called(op, out) ==
    /\ Len(out.uow.sessions) <= MaxSessions
    /\ heap' = out.uow
    /\ caller' = [pc |-> "called", op |-> op, had_session |-> heap.session # 0,
                  raised |-> out.raised, value |-> out.value]
    /\ UNCHANGED <<allow_entries, created_at, updated_at, errors, now, call, ae>>

Enter == Called("__aenter__", UnitOfWork_aenter(heap))

Exit ==
    \E exc \in BlockExceptions, fails \in BOOLEAN :
        Called("__aexit__", UnitOfWork_aexit(heap, exc, fails))

Commit ==
    /\ heap.session # 0 => heap.sessions[heap.session].commits < MaxCommits
    /\ \E fails \in BOOLEAN : Called("commit", UnitOfWork_commit(heap, fails))

Rollback == \E fails \in BOOLEAN : Called("rollback", UnitOfWork_rollback(heap, fails))

Flush == \E fails \in BOOLEAN : Called("flush", UnitOfWork_flush(heap, fails))

Refresh == \E fails \in BOOLEAN : Called("refresh", UnitOfWork_refresh(heap, fails))

ReadSession == Called("session", UnitOfWork_session(heap))

NextUow ==
    \/ Enter
    \/ Exit
    \/ Commit
    \/ Rollback
    \/ Flush
    \/ Refresh
    \/ ReadSession

\* A client calling the methods of one UnitOfWork in any order.
SpecUow == InitUow /\ [][NextUow]_vars

\* ------------------------------------------------ a request through get_uow
\* Calls the handler makes on the unit of work before it ends.
MaxHandlerSteps == 3

\* No request yet: FastAPI has not called get_uow.
InitRequest ==
    /\ allow_entries = <<>>
    /\ created_at = 0
    /\ updated_at = 0
    /\ errors = <<>>
    /\ now = 0
    /\ call = Call("", NoPrincipal)
    /\ ae = AeIdle
    /\ heap = NewUnitOfWork
    /\ caller = [pc |-> "start", steps |-> 0, handler |-> "", handler_exc |-> "",
                 pending |-> FALSE, exc |-> "", failed |-> FALSE, raised |-> ""]

RequestFrame == UNCHANGED <<allow_entries, created_at, updated_at, errors, now, call, ae>>

\* uow = UnitOfWork(session_factory); async with uow: ... yield uow
RequestStart ==
    /\ caller.pc = "start"
    /\ heap' = UnitOfWork_aenter(heap).uow
    /\ caller' = [caller EXCEPT !.pc = "handler"]
    /\ RequestFrame

\* The handler runs a statement through uow.session.
HandlerExecute ==
    /\ caller.pc = "handler"
    /\ caller.steps < MaxHandlerSteps
    /\ heap' = [heap EXCEPT !.sessions[heap.session] = Session_execute(@, FALSE)]
    /\ caller' = [caller EXCEPT !.steps = @ + 1]
    /\ RequestFrame

\* The handler commits; a commit that raises ends the handler with that
\* exception.
HandlerCommit ==
    /\ caller.pc = "handler"
    /\ caller.steps < MaxHandlerSteps
    /\ \E fails \in BOOLEAN :
           LET out == UnitOfWork_commit(heap, fails)
           IN  /\ heap' = out.uow
               /\ caller' = IF out.raised = ""
                            THEN [caller EXCEPT !.steps = @ + 1]
                            ELSE [caller EXCEPT
                                    !.pc = "thrown", !.handler = "raised",
                                    !.handler_exc = out.raised, !.exc = out.raised,
                                    !.pending = out.uow.sessions[heap.session].in_transaction]
    /\ RequestFrame

\* The handler returns: the generator resumes after the yield.
HandlerReturns ==
    /\ caller.pc = "handler"
    /\ caller' = [caller EXCEPT !.pc = "after_yield", !.handler = "returned",
                                !.pending = heap.sessions[heap.session].in_transaction]
    /\ UNCHANGED heap
    /\ RequestFrame

\* The handler raises an Exception: it is thrown into the generator at the
\* yield, inside the try.
HandlerRaises ==
    /\ caller.pc = "handler"
    /\ caller' = [caller EXCEPT !.pc = "thrown", !.handler = "raised",
                                !.handler_exc = "HandlerError", !.exc = "HandlerError",
                                !.pending = heap.sessions[heap.session].in_transaction]
    /\ UNCHANGED heap
    /\ RequestFrame

\* The request is cancelled: CancelledError is no Exception, the except
\* block does not see it and it reaches __aexit__.
HandlerCancelled ==
    /\ caller.pc = "handler"
    /\ caller' = [caller EXCEPT !.pc = "leaving", !.handler = "cancelled",
                                !.handler_exc = "CancelledError", !.exc = "CancelledError",
                                !.pending = heap.sessions[heap.session].in_transaction]
    /\ UNCHANGED heap
    /\ RequestFrame

\* Lines 46-52; an exception of the rollback is caught by the except block.
AfterYield ==
    /\ caller.pc = "after_yield"
    /\ \E fails \in BOOLEAN :
           LET out == get_uow_after_yield(heap, fails)
           IN  /\ heap' = out.uow
               /\ caller' = IF out.raised = ""
                            THEN [caller EXCEPT !.pc = "leaving"]
                            ELSE [caller EXCEPT !.pc = "thrown", !.exc = out.raised,
                                                !.failed = TRUE]
    /\ RequestFrame

\* Lines 54-58.
ExceptBlock ==
    /\ caller.pc = "thrown"
    /\ \E fails \in BOOLEAN :
           LET out == get_uow_except(heap, caller.exc, fails)
           IN  /\ heap' = out.uow
               /\ caller' = [caller EXCEPT !.pc = "leaving", !.exc = out.raised,
                                           !.failed = @ \/ fails]
    /\ RequestFrame

\* The `async with` is left: __aexit__ with the exception in flight.
RequestEnds ==
    /\ caller.pc = "leaving"
    /\ \E fails \in BOOLEAN :
           LET out == UnitOfWork_aexit(heap, caller.exc, fails)
           IN  /\ heap' = out.uow
               /\ caller' = [caller EXCEPT !.pc = "done", !.raised = out.raised,
                                           !.failed = @ \/ (fails /\ caller.exc # "")]
    /\ RequestFrame

NextRequest ==
    \/ RequestStart
    \/ HandlerExecute
    \/ HandlerCommit
    \/ HandlerReturns
    \/ HandlerRaises
    \/ HandlerCancelled
    \/ AfterYield
    \/ ExceptBlock
    \/ RequestEnds

SpecRequest == InitRequest /\ [][NextRequest]_vars

\* ------------------------------------------- DeleteOrganizationUseCase.execute
\* Executions of the use case in one behaviour.
MaxRuns == 3

\* The ids the callers pass: the UUIDs in their usual spelling, a string that
\* is no UUID, and the empty string.
DeleteInputs == {UuidText(u, "lower") : u \in GivenUuids} \cup {InvalidText, EmptyText}

NoRun == [pc |-> "idle", runs |-> 0, input |-> EmptyText, org_id |-> <<>>,
          existed |-> FALSE, issued |-> FALSE, removed |-> FALSE,
          success |-> <<>>, output |-> <<>>]

\* Any rows in the table, no execution yet.
InitDelete ==
    /\ allow_entries = <<>>
    /\ created_at = 0
    /\ updated_at = 0
    /\ errors = <<>>
    /\ now = 0
    /\ call = Call("", NoPrincipal)
    /\ ae = AeIdle
    /\ \E rows \in SUBSET GivenUuids : heap = [rows |-> rows]
    /\ caller = NoRun

DeleteFrame == UNCHANGED <<allow_entries, created_at, updated_at, errors, now, call, ae>>

\* execute(input_dto) up to the lookup: OrganizationId(input_dto.id), then
\* get_organization_by_id; a missing organization and every exception end the
\* execution with success=False.
ExecuteLookup ==
    /\ caller.pc \in {"idle", "done"}
    /\ caller.runs < MaxRuns
    /\ \E input \in DeleteInputs, fresh \in FreshUuids, fails \in BOOLEAN :
           LET built == BaseId_init(input, fresh)
               run == [NoRun EXCEPT !.runs = caller.runs + 1, !.input = input]
           IN  IF built.raised
               THEN caller' = [run EXCEPT
                                 !.pc = "done",
                                 !.output = <<OrganizationOutputDTO(FALSE,
                                     <<"Erro ao deletar organizacao: Invalid UUID format">>)>>]
               ELSE LET org_id == built.obj[1]
                        found == get_organization_by_id(heap.rows, org_id, fails)
                        here == [run EXCEPT !.org_id = <<org_id>>,
                                            !.existed = org_id.value.uuid \in heap.rows]
                    IN  IF found.raised # ""
                        THEN caller' = [here EXCEPT
                                          !.pc = "done",
                                          !.output = <<OrganizationOutputDTO(FALSE,
                                              <<"Erro ao deletar organizacao: SQLAlchemyError">>)>>]
                        ELSE IF found.value = <<>>
                        THEN caller' = [here EXCEPT
                                          !.pc = "done",
                                          !.output = <<OrganizationOutputDTO(FALSE,
                                              <<"Organizacao nao encontrada">>)>>]
                        ELSE caller' = [here EXCEPT !.pc = "found"]
    /\ UNCHANGED heap
    /\ DeleteFrame

\* success = await self._repository.delete_organization(org_id)
ExecuteDelete ==
    /\ caller.pc = "found"
    /\ \E fails \in BOOLEAN :
           LET out == delete_organization(heap.rows, caller.org_id[1], fails)
           IN  /\ heap' = [rows |-> out.rows]
               /\ caller' = IF out.raised # ""
                            THEN [caller EXCEPT
                                    !.pc = "done", !.issued = out.issued,
                                    !.output = <<OrganizationOutputDTO(FALSE,
                                        <<"Erro ao deletar organizacao: " \o out.raised>>)>>]
                            ELSE [caller EXCEPT
                                    !.pc = "deleted", !.issued = out.issued,
                                    !.removed = TRUE, !.success = <<out.value>>]
    /\ DeleteFrame

\* `if not success: raise DomainException(...)`, caught below, else the
\* success DTO.
respond(success) ==
    IF ~Truthy(success)
    THEN OrganizationOutputDTO(FALSE, <<"Falha ao deletar organizacao">>)
    ELSE OrganizationOutputDTO(TRUE, <<>>)

ExecuteRespond ==
    /\ caller.pc = "deleted"
    /\ caller' = [caller EXCEPT !.pc = "done", !.output = <<respond(caller.success[1])>>]
    /\ UNCHANGED heap
    /\ DeleteFrame

NextDelete ==
    \/ ExecuteLookup
    \/ ExecuteDelete
    \/ ExecuteRespond

SpecDelete == InitDelete /\ [][NextDelete]_vars


\* ------------------------------------------------- concurrent creations
\* CreateOrganizationUseCase.execute run by several requests at once, each
\* with its own session on the same database.  heap.rows holds the committed
\* rows of the organizations table, caller[k] the execution of request k:
\* where it stands, the executions that ran while it ran, the row its
\* session has flushed, the DTO it returned and how its session ended.  The database is taken to answer every statement;
\* a session reads committed rows (the default isolation level of the
\* PostgreSQL database the configuration names).
MaxExecutions == 3

Executions == 1..MaxExecutions

Slugs == {"acme", "beta"}

NoExecution(slug) ==
    [pc |-> "start", slug |-> slug, met |-> {}, flushed |-> FALSE,
     output |-> <<>>, raised |-> "", session |-> "open"]

InitCreate ==
    /\ allow_entries = <<>>
    /\ created_at = 0
    /\ updated_at = 0
    /\ errors = <<>>
    /\ now = 0
    /\ call = Call("", NoPrincipal)
    /\ ae = AeIdle
    /\ heap = [rows |-> {}]
    /\ \E slugs \in [Executions -> Slugs] :
           caller = [k \in Executions |-> NoExecution(slugs[k])]

CreateFrame == UNCHANGED <<allow_entries, created_at, updated_at, errors, now, call, ae>>

\* The unique index makes an insert wait while another open transaction
\* holds an uncommitted row with the same slug.
slug_held(executions, k, slug) ==
    \E j \in DOMAIN executions :
        /\ j # k
        /\ executions[j].session = "open"
        /\ executions[j].flushed
        /\ executions[j].slug = slug

\* execute(input_dto) up to `existing_org = await get_organization_by_slug`:
\* a slug in use raises DomainException, which execute turns into a DTO.
CreateLookup(k) ==
    /\ caller[k].pc = "start"
    /\ LET existing_org == get_organization_by_slug(heap.rows, caller[k].slug)
           running == {j \in Executions : caller[j].pc = "create"}
           seen == [j \in Executions |->
                       IF j \in running
                       THEN [caller[j] EXCEPT !.met = @ \cup {k}]
                       ELSE caller[j]]
       IN  caller' = [seen EXCEPT ![k] =
               IF existing_org # <<>>
               THEN [@ EXCEPT !.pc = "returned", !.met = running,
                              !.output = <<OrganizationOutputDTO(FALSE,
                                  <<"Slug ja esta em uso por outra organizacao">>)>>]
               ELSE [@ EXCEPT !.pc = "create", !.met = running]]
    /\ UNCHANGED heap
    /\ CreateFrame

\* `created_org = await self._repository.create_organization(organization)`
\* and the return: the success DTO, or the DTO `except Exception` builds
\* from the IntegrityError.
CreateInsert(k) ==
    /\ caller[k].pc = "create"
    /\ ~slug_held(caller, k, caller[k].slug)
    /\ LET organization == [id |-> k, slug |-> caller[k].slug]
           created_org == create_organization(heap.rows, organization)
       IN  caller' = [caller EXCEPT ![k] =
               IF created_org.raised # ""
               THEN [@ EXCEPT !.pc = "returned",
                              !.output = <<OrganizationOutputDTO(FALSE,
                                  <<"Erro ao criar organizacao: " \o created_org.raised>>)>>]
               ELSE [@ EXCEPT !.pc = "returned", !.flushed = TRUE,
                              !.output = <<OrganizationOutputDTO(TRUE, <<>>)>>]]
    /\ UNCHANGED heap
    /\ CreateFrame

\* The caller commits after a successful execution: the flushed row is
\* stored.
SessionCommit(k) ==
    /\ caller[k].pc = "returned"
    /\ caller[k].session = "open"
    /\ caller[k].output[1].success
    /\ heap' = [rows |-> heap.rows \cup {[id |-> k, slug |-> caller[k].slug]}]
    /\ caller' = [caller EXCEPT ![k].session = "committed"]
    /\ CreateFrame

\* The request ends without a commit, or the commit is refused: get_uow and
\* UnitOfWork.__aexit__ roll the session back.
SessionRollback(k) ==
    /\ caller[k].pc = "returned"
    /\ caller[k].session = "open"
    /\ caller' = [caller EXCEPT ![k].session = "rolled_back"]
    /\ UNCHANGED heap
    /\ CreateFrame

NextCreate ==
    \E k \in Executions :
        \/ CreateLookup(k)
        \/ CreateInsert(k)
        \/ SessionCommit(k)
        \/ SessionRollback(k)

SpecCreate == InitCreate /\ [][NextCreate]_vars

\* ------------------------------------------------------------------ claims
\* The role lists the specification accepts: no repetition, and the roles
\* form one of the five sets.
FiveRoleSets ==
    {{"FULL_ACCESS"}, {"EDITOR"}, {"USER"}, {"VIEWER"}, {"EDITOR", "USER"}}

AcceptedRoleList(roles) ==
    /\ Len(roles) = Cardinality(Range(roles))
    /\ Range(roles) \in FiveRoleSets

\* Number of entries the collection holds for a principal.
Count(entries, principal) ==
    Cardinality({i \in 1..Len(entries) : entries[i].principal = principal})

\* The entries of a principal, in list order.
EntriesOf(entries, principal) ==
    SelectSeq(entries, LAMBDA e : e.principal = principal)

\* A call that took the aggregate from Self to post was rejected: nothing
\* but one more error.
Rejected(post) ==
    /\ post.allow_entries = allow_entries
    /\ post.updated_at = updated_at
    /\ Len(post.errors) = Len(errors) + 1
    /\ SubSeq(post.errors, 1, Len(errors)) = errors

\* The same, for a call made on the aggregate `pre`.
RejectedFrom(pre, post) ==
    /\ post.allow_entries = pre.allow_entries
    /\ post.updated_at = pre.updated_at
    /\ Len(post.errors) = Len(pre.errors) + 1
    /\ SubSeq(post.errors, 1, Len(pre.errors)) = pre.errors


\* C1: from a construction with an empty or duplicate-free entry list, after
\* any sequence of the mutating calls the collection holds at most one entry
\* per principal.
C1_OneEntryPerPrincipal == NoDuplicatePrincipals(allow_entries)

\* Two principals hold an entry each, the second one put there by a grant.
C1_Witness ==
    /\ call.op = "grant_viewer_access"
    /\ Len(allow_entries) = 2
    /\ allow_entries[2].principal = call.principal
    /\ NoDuplicatePrincipals(allow_entries)

\* C2: every rejected mutating call (add for a principal that has an entry;
\* remove, revoke or update for a principal that has none; update with an
\* empty or invalid role list) leaves the entries, their order and
\* updated_at as they were and appends an error.
C2_RejectedCallsChangeNothing ==
    \A t \in ClockReads :
        /\ \A e \in AllowEntries :
               has_access(Self, e.principal) => Rejected(add_allow_entry(Self, e, t))
        /\ \A p \in Principals :
               ~has_access(Self, p) =>
                   /\ Rejected(remove_allow_entry(Self, p, t))
                   /\ Rejected(revoke_access(Self, p, t))
                   /\ \A r \in RoleLists : Rejected(update_allow_entry(Self, p, r, t))
        /\ \A p \in Principals, r \in RoleLists :
               ~AcceptedRoleList(r) => Rejected(update_allow_entry(Self, p, r, t))

\* An update with a forbidden role pair was rejected for a principal that
\* has an entry, at a time later than updated_at.
C2_Witness ==
    /\ call.op = "update_allow_entry"
    /\ has_access(Self, call.principal)
    /\ errors = <<"EDITOR ja inclui permissoes de VIEWER">>
    /\ updated_at < now

\* C3: whenever is_valid() is true, no two entries share a principal and
\* updated_at >= created_at.
C3_ValidImpliesInvariants ==
    is_valid(Self) =>
        /\ NoDuplicatePrincipals(allow_entries)
        /\ updated_at >= created_at

\* C4: add_allow_entry(entry) is rejected iff the aggregate already holds an
\* entry for entry.principal; when rejected the existing entry keeps its
\* roles; when accepted the collection grows by exactly that entry and
\* has_access(entry.principal) is true.
C4_AddRejectedIffPresent ==
    \A e \in AllowEntries, t \in ClockReads :
        LET post == add_allow_entry(Self, e, t)
        IN  /\ (Len(post.errors) > Len(errors)) <=> has_access(Self, e.principal)
            /\ has_access(Self, e.principal) =>
                   /\ post.allow_entries = allow_entries
                   /\ get_principal_roles(post, e.principal)
                          = get_principal_roles(Self, e.principal)
            /\ ~has_access(Self, e.principal) =>
                   /\ post.allow_entries = Append(allow_entries, e)
                   /\ post.errors = errors
                   /\ has_access(post, e.principal)

\* A second entry for a principal was refused and the first is still there.
C4_Witness ==
    /\ call.op = "add_allow_entry"
    /\ errors = <<"Principal ja possui permissoes definidas">>
    /\ Count(allow_entries, call.principal) = 1

\* remove_allow_entry(p) on the aggregate `pre`: it succeeds iff p has an
\* entry, and then the entries of the other principals are kept, p has no
\* access and a second remove is rejected.
RemoveThenRemove(pre, p, t) ==
    LET post == remove_allow_entry(pre, p, t)
        again == remove_allow_entry(post, p, t)
    IN  /\ (post.errors = pre.errors) <=> has_access(pre, p)
        /\ has_access(pre, p) =>
               /\ ~has_access(post, p)
               /\ \A q \in Principals \ {p} :
                      EntriesOf(post.allow_entries, q) = EntriesOf(pre.allow_entries, q)
               /\ RejectedFrom(post, again)

\* C5 as claimed: in every state, remove_allow_entry(p) succeeds iff p has an
\* entry; after a successful remove has_access(p) is false, the other
\* principals' entries are kept, and a second remove fails changing nothing.
C5_RemoveRevokes ==
    \A p \in Principals, t \in ClockReads : RemoveThenRemove(Self, p, t)

\* C5 amended: the same for every principal that holds at most one entry.
C5_RemoveRevokesSingleEntry ==
    \A p \in Principals, t \in ClockReads :
        Count(allow_entries, p) <= 1 => RemoveThenRemove(Self, p, t)

\* A principal's only entry was removed while another principal keeps one.
C5_Witness ==
    /\ call.op = "remove_allow_entry"
    /\ errors = <<>>
    /\ ~has_access(Self, call.principal)
    /\ Len(allow_entries) = 1

\* update_allow_entry(p, new_roles) on the aggregate `pre`.
UpdateOutcome(pre, p, new_roles, t) ==
    LET post == update_allow_entry(pre, p, new_roles, t)
    IN  IF ~has_access(pre, p) \/ ~AcceptedRoleList(new_roles)
        THEN /\ Len(post.errors) = Len(pre.errors) + 1
             /\ Len(post.allow_entries) = Len(pre.allow_entries)
             /\ EntriesOf(post.allow_entries, p) = EntriesOf(pre.allow_entries, p)
        ELSE /\ post.errors = pre.errors
             /\ Len(post.allow_entries) = Len(pre.allow_entries)
             /\ EntriesOf(post.allow_entries, p) = <<[principal |-> p, roles |-> new_roles]>>

\* C6 as claimed: update_allow_entry fails when p has no entry or new_roles
\* breaks the role rules, leaving the number of entries and p's roles as
\* they were; otherwise p has exactly one entry, with exactly new_roles, and
\* the number of entries is unchanged.
C6_UpdateReplaces ==
    \A p \in Principals, r \in RoleLists, t \in ClockReads : UpdateOutcome(Self, p, r, t)

\* C6 amended: the same for every principal that holds at most one entry.
C6_UpdateReplacesSingleEntry ==
    \A p \in Principals, r \in RoleLists, t \in ClockReads :
        Count(allow_entries, p) <= 1 => UpdateOutcome(Self, p, r, t)

\* An update replaced {VIEWER}-like roles by the pair EDITOR, USER while
\* another principal holds an entry.
C6_Witness ==
    /\ call.op = "update_allow_entry"
    /\ errors = <<>>
    /\ Len(allow_entries) = 2
    /\ allow_entries[2] = [principal |-> call.principal, roles |-> <<"EDITOR", "USER">>]
    /\ Count(allow_entries, call.principal) = 1

\* After a grant on the aggregate `pre`: no error, and p has exactly one
\* entry, with exactly the granted role.
Granted(pre, post, p, role) ==
    /\ post.errors = pre.errors
    /\ EntriesOf(post.allow_entries, p) = <<[principal |-> p, roles |-> <<role>>]>>
    /\ get_principal_roles(post, p) = <<role>>

GrantOutcome(pre, p, t) ==
    /\ Granted(pre, grant_full_access(pre, p, t), p, "FULL_ACCESS")
    /\ Granted(pre, grant_editor_access(pre, p, t), p, "EDITOR")
    /\ Granted(pre, grant_user_access(pre, p, t), p, "USER")
    /\ Granted(pre, grant_viewer_access(pre, p, t), p, "VIEWER")
    /\ Granted(pre, grant_viewer_access(grant_full_access(pre, p, t), p, t), p, "VIEWER")

\* C7 as claimed: in every state each grant_*(p) records no error and leaves
\* p with exactly one entry whose roles are exactly the granted role;
\* grant_full_access then grant_viewer_access gives exactly VIEWER.
C7_GrantSetsSingleRole ==
    \A p \in Principals, t \in ClockReads : GrantOutcome(Self, p, t)

\* C7 amended: the same for every principal that holds at most one entry.
C7_GrantSetsSingleRoleSingleEntry ==
    \A p \in Principals, t \in ClockReads :
        Count(allow_entries, p) <= 1 => GrantOutcome(Self, p, t)

\* grant_viewer_access replaced the roles of a principal that had an entry.
C7_Witness ==
    /\ call.op = "grant_viewer_access"
    /\ errors = <<>>
    /\ Len(allow_entries) = 2
    /\ get_principal_roles(Self, call.principal) = <<"VIEWER">>
    /\ allow_entries[1].principal # call.principal
    /\ updated_at = now

\* C8: AllowEntry construction succeeds exactly for the role lists without
\* repetition that form {FULL_ACCESS}, {EDITOR}, {USER}, {VIEWER} or
\* {EDITOR, USER}; every other list is rejected and yields no object.
C8_AllowEntryAcceptsFiveSets ==
    ae.pc \in {"built", "queried"} =>
        /\ ~ae.obj.raised <=> AcceptedRoleList(ae.roles)
        /\ ae.obj.raised => ae.obj.value = <<>> /\ ae.obj.error # ""
        /\ ~ae.obj.raised =>
               ae.obj.value = <<[principal |-> ae.principal, roles |-> ae.roles]>>

\* USER with VIEWER was rejected at construction.
C8_Witness ==
    /\ ae.pc = "built"
    /\ ae.roles = <<"USER", "VIEWER">>
    /\ ae.obj.raised
    /\ ae.obj.value = <<>>

\* C9: for every constructible AllowEntry, can_share iff FULL_ACCESS;
\* can_edit and can_delete iff FULL_ACCESS or EDITOR; can_use iff
\* FULL_ACCESS, EDITOR or USER; can_view always; so share => edit => use =>
\* view, and {USER} can use and view but not edit, delete or share.
C9_CapabilityLattice ==
    ae.pc = "queried" =>
        LET R == Range(ae.roles)
            a == ae.answers
        IN  /\ a.can_share <=> "FULL_ACCESS" \in R
            /\ a.can_edit <=> R \cap {"FULL_ACCESS", "EDITOR"} # {}
            /\ a.can_delete <=> R \cap {"FULL_ACCESS", "EDITOR"} # {}
            /\ a.can_use <=> R \cap {"FULL_ACCESS", "EDITOR", "USER"} # {}
            /\ a.can_view
            /\ a.can_share => a.can_edit
            /\ a.can_edit => a.can_use
            /\ a.can_use => a.can_view
            /\ R = {"USER"} =>
                   /\ a.can_use /\ a.can_view
                   /\ ~a.can_edit /\ ~a.can_delete /\ ~a.can_share

\* The entry with roles {USER} was asked its capabilities.
C9_Witness ==
    /\ ae.pc = "queried"
    /\ ae.roles = <<"USER">>
    /\ ae.answers.can_use
    /\ ~ae.answers.can_edit

\* C10: in every state and for every principal p, can_view, can_use,
\* can_edit, can_delete and can_share(p) are false when p has no entry and
\* otherwise are the entry predicates of p's current roles; where only
\* grant_editor_access(p) was applied, can_delete(p) holds and can_share(p)
\* does not.
C10_AggregateDelegates ==
    \A p \in Principals :
        LET R == Range(get_principal_roles(Self, p))
        IN  /\ ~has_access(Self, p) =>
                   /\ ~can_view(Self, p) /\ ~can_use(Self, p) /\ ~can_edit(Self, p)
                   /\ ~can_delete(Self, p) /\ ~can_share(Self, p)
            /\ has_access(Self, p) =>
                   /\ can_view(Self, p)
                   /\ can_use(Self, p) <=> R \cap {"FULL_ACCESS", "EDITOR", "USER"} # {}
                   /\ can_edit(Self, p) <=> R \cap {"FULL_ACCESS", "EDITOR"} # {}
                   /\ can_delete(Self, p) <=> R \cap {"FULL_ACCESS", "EDITOR"} # {}
                   /\ can_share(Self, p) <=> "FULL_ACCESS" \in R
            /\ allow_entries = <<[principal |-> p, roles |-> <<"EDITOR">>]>> =>
                   can_delete(Self, p) /\ ~can_share(Self, p)

\* Only grant_editor_access(p) was applied to an empty aggregate.
C10_Witness ==
    /\ call.op = "grant_editor_access"
    /\ allow_entries = <<[principal |-> call.principal, roles |-> <<"EDITOR">>]>>
    /\ can_delete(Self, call.principal)
    /\ ~can_share(Self, call.principal)

\* A call on the aggregate came back as `out`: it returned and either
\* applied its change (no error, updated_at is the time of the call) or
\* was rejected (entries and updated_at as they were, one more error).
Total(out, t) ==
    /\ ~out.raised
    /\ \/ out.self.errors = errors /\ out.self.updated_at = t
       \/ Rejected(out.self)

BadArgument(c) ==
    \/ \E n \in FieldNames : c.fields[n] # "ok"
    \/ /\ c.allow_entries.kind = "list"
       /\ \E i \in 1..Len(c.allow_entries.val[1]) :
              c.allow_entries.val[1][i].kind # "AllowEntry"
    \/ c.created_at = BadTime
    \/ c.updated_at = BadTime

\* C12: a construction with a None or mistyped id, resource_type,
\* resource_id, organization_id, owner_id, allow_entries element or timestamp
\* never raises: it returns an object with the problem in its error list,
\* and is_valid() is false.
C12_ConstructorNeverRaises ==
    BadArgument(caller) =>
        /\ caller.pc # "raised"
        /\ caller.pc = "constructed" => Len(errors) > 0
        /\ caller.pc = "checked" => ~caller.valid

\* C13: no list the calling code holds (the constructor's allow_entries
\* argument, the list of the allow_entries property, the lists returned by
\* get_principal_roles and get_all_principals) is the aggregate's
\* collection, and two aggregates never share one: after the calling code
\* appends to or clears such a list, or clears the permissions of another
\* aggregate, has_access, get_all_principals and get_principal_roles of the
\* aggregate report what they reported before.
C13_SoleOwnerOfCollection ==
    call.op \in {"list.append", "list.clear", "other.clear_all_permissions"} =>
        LET before == [Self EXCEPT !.allow_entries = caller.before]
        IN  /\ get_all_principals(Self) = get_all_principals(before)
            /\ \A p \in Principals :
                   /\ has_access(Self, p) = has_access(before, p)
                   /\ get_principal_roles(Self, p) = get_principal_roles(before, p)

Cleared(post, t) ==
    /\ post.allow_entries = <<>>
    /\ get_all_principals(post) = <<>>
    /\ \A p \in Principals : ~has_access(post, p)
    /\ post.errors = errors
    /\ post.updated_at = t

SameValues(a, b) ==
    a.principal_type = b.principal_type /\ a.principal_id = b.principal_id

\* Two aggregates hold the same errors and timestamp and entries that agree
\* in principal values and role lists, position by position.
SameUpToObjects(x, y) ==
    /\ x.errors = y.errors
    /\ x.updated_at = y.updated_at
    /\ Len(x.allow_entries) = Len(y.allow_entries)
    /\ \A i \in 1..Len(x.allow_entries) :
           /\ SameValues(x.allow_entries[i].principal, y.allow_entries[i].principal)
           /\ x.allow_entries[i].roles = y.allow_entries[i].roles

\* C16: two Principals are equal, and hash equal, iff their PrincipalType and
\* PrincipalId values are equal; so a Principal built again from the same
\* values finds, updates and removes the entry stored under the first, and
\* (USER, x) and (TEAM, x) are distinct and each hold their own entry.
C16_PrincipalEqualityByValue ==
    /\ \A a, b \in PrincipalObjects :
           /\ Principal_eq(a, b) <=> SameValues(a, b)
           /\ Principal_hash(a) = Principal_hash(b) <=> SameValues(a, b)
    /\ \A a, b \in PrincipalObjects, t \in ClockReads :
           SameValues(a, b) =>
               /\ has_access(Self, a) = has_access(Self, b)
               /\ find_entry_by_principal(allow_entries, a)
                      = find_entry_by_principal(allow_entries, b)
               /\ get_principal_roles(Self, a) = get_principal_roles(Self, b)
               /\ remove_allow_entry(Self, a, t) = remove_allow_entry(Self, b, t)
               /\ \A r \in ObjectRoleLists :
                      SameUpToObjects(update_allow_entry(Self, a, r, t),
                                      update_allow_entry(Self, b, r, t))
    /\ \A a, b \in PrincipalObjects, t \in ClockReads :
           (a.principal_type = "USER" /\ b.principal_type = "TEAM") =>
               /\ ~Principal_eq(a, b)
               /\ LET post == grant_viewer_access(Self, b, t)
                  IN  /\ has_access(post, b)
                      /\ get_principal_roles(post, b) = <<"VIEWER">>
                      /\ has_access(post, a) = has_access(Self, a)
                      /\ get_principal_roles(post, a) = get_principal_roles(Self, a)

\* (USER, id1) and (TEAM, id1) hold an entry each, and an update made with a
\* second Principal object replaced the entry stored under the first.
C16_Witness ==
    /\ call.op = "update_allow_entry"
    /\ call.principal.oid = 2
    /\ errors = <<>>
    /\ Len(allow_entries) = 2
    /\ allow_entries[1].principal.oid = 1
    /\ allow_entries[1].principal.principal_type # call.principal.principal_type
    /\ allow_entries[2].principal = call.principal
    /\ allow_entries[2].roles = <<"EDITOR", "USER">>

\* C17: identifier equality and hashing are by underlying UUID value: two
\* identifiers built from strings denoting the same 128-bit UUID (spellings
\* differing only in letter case or hyphenation) compare equal and hash equal;
\* construction from a string that is not a valid UUID fails; construction
\* without a value yields a fresh valid UUID.
C17_IdEqualityByUuidValue ==
    /\ caller.pc = "compared" =>
           LET a == caller.built[1].obj[1]
               b == caller.built[2].obj[1]
               same == uuid_UUID(a.value).int = uuid_UUID(b.value).int
           IN  /\ caller.eq <=> same
               /\ caller.hash_eq <=> same
    /\ caller.pc \in {"one", "two", "compared"} =>
           \A i \in 1..Len(caller.args) :
               /\ caller.args[i] = InvalidText => caller.built[i].raised
               /\ caller.args[i] = NoValue =>
                      /\ ~caller.built[i].raised
                      /\ caller.built[i].obj[1].value.uuid \in FreshUuids

\* C18: revoke_access behaves exactly as remove_allow_entry, for every state and
\* every argument: same outcome, same entries, same timestamp, same errors.
C18_RevokeIsRemove ==
    \A arg \in PrincipalArgs, t \in ClockReads :
        LET revoked == revoke_access_any(Self, arg, t)
            removed == remove_allow_entry_any(Self, arg, t)
        IN  /\ revoked.raised = removed.raised
            /\ revoked.self.allow_entries = removed.self.allow_entries
            /\ revoked.self.updated_at = removed.self.updated_at
            /\ revoked.self.errors = removed.self.errors

\* revoke_access has removed the entry of a principal that had one.
C18_Witness ==
    /\ call.op = "revoke_access"
    /\ caller.pc = "returned"
    /\ caller.arg = "Principal"
    /\ errors = <<>>
    /\ updated_at = now
    /\ Len(allow_entries) = 1

\* The number of entries whose role set contains role.
EntriesWithRole(entries, role) ==
    Cardinality({i \in 1..Len(entries) :
                    \E k \in 1..Len(entries[i].roles) : entries[i].roles[k] = role})

\* The number of entries whose role set is {EDITOR, USER}.
EditorUserEntries(entries) ==
    Cardinality({i \in 1..Len(entries) :
                    {entries[i].roles[k] : k \in 1..Len(entries[i].roles)}
                        = {"EDITOR", "USER"}})

\* C19: in every reachable state get_permissions_summary() reports
\* total_entries as the number of entries and each of the four counts as the
\* number of entries whose role set contains that role; one grant_editor_access
\* on an empty aggregate gives editor_count 1; the four counts sum to
\* total_entries plus the number of {EDITOR, USER} entries.
C19_SummaryCounts ==
    LET summary == get_permissions_summary(Self)
    IN  /\ summary.total_entries = Len(allow_entries)
        /\ summary.full_access_count = EntriesWithRole(allow_entries, "FULL_ACCESS")
        /\ summary.editor_count = EntriesWithRole(allow_entries, "EDITOR")
        /\ summary.user_count = EntriesWithRole(allow_entries, "USER")
        /\ summary.viewer_count = EntriesWithRole(allow_entries, "VIEWER")
        /\ summary.full_access_count + summary.editor_count
               + summary.user_count + summary.viewer_count
               = summary.total_entries + EditorUserEntries(allow_entries)
        /\ allow_entries = <<>> =>
               \A principal \in Principals, t \in ClockReads :
                   get_permissions_summary(
                       grant_editor_access(Self, principal, t)).editor_count = 1

\* An {EDITOR, USER} entry beside the EDITOR entry that a successful
\* grant_editor_access has just stored: three counted for two entries.
C19_Witness ==
    /\ call.op = "grant_editor_access"
    /\ errors = <<>>
    /\ Len(allow_entries) = 2
    /\ EditorUserEntries(allow_entries) = 1
    /\ get_permissions_summary(Self).editor_count = 2
    /\ get_permissions_summary(Self).user_count = 1
    /\ get_permissions_summary(Self).total_entries = 2

\* principal is one of the principals a list query returned.
Listed(principals, principal) ==
    \E i \in 1..Len(principals) : Principal_eq(principals[i], principal)

\* The role set of principal, as get_principal_roles reports it, contains role.
InRoleSet(self, principal, role) ==
    LET roles == get_principal_roles(self, principal)
    IN  \E k \in 1..Len(roles) : roles[k] = role

\* The three list queries agree with the per-principal queries on principal.
ListsAgree(self, principal) ==
    /\ Listed(get_principals_with_edit_access(self), principal)
           <=> can_edit(self, principal)
    /\ Listed(get_principals_with_full_access(self), principal)
           <=> can_share(self, principal)
    /\ \A role \in ResourceRole :
           Listed(get_principals_with_role(self, role), principal)
               <=> InRoleSet(self, principal, role)
    /\ get_principal_roles(self, principal) = <<"EDITOR">> =>
           /\ Listed(get_principals_with_edit_access(self), principal)
           /\ ~Listed(get_principals_with_full_access(self), principal)

\* C20 as stated: in every reachable state get_principals_with_edit_access()
\* returns exactly the principals with can_edit, get_principals_with_full_access()
\* exactly those with can_share, get_principals_with_role(r) exactly those whose
\* role set contains r, and an EDITOR-only principal is in the edit list but
\* not in the full-access list.
C20_ListsMatchQueries ==
    \A p \in Principals : ListsAgree(Self, p)

\* C20 amended: the same for every principal that holds at most one entry.
C20_ListsMatchQueriesSingleEntry ==
    \A p \in Principals : Count(allow_entries, p) <= 1 => ListsAgree(Self, p)

\* After a grant, an EDITOR-only principal is listed as editing but not as
\* having full access, beside a FULL_ACCESS principal listed in both.
C20_Witness ==
    /\ call.op = "grant_editor_access"
    /\ errors = <<>>
    /\ Len(allow_entries) = 2
    /\ get_principal_roles(Self, call.principal) = <<"EDITOR">>
    /\ Len(get_principals_with_edit_access(Self)) = 2
    /\ Len(get_principals_with_full_access(Self)) = 1
    /\ ~Listed(get_principals_with_full_access(Self), call.principal)
    /\ can_edit(Self, call.principal)
    /\ ~can_share(Self, call.principal)

\* The mutating methods of the aggregate.
MutatingOps ==
    {"add_allow_entry", "remove_allow_entry", "update_allow_entry",
     "grant_full_access", "grant_editor_access", "grant_user_access",
     "grant_viewer_access", "revoke_access", "clear_all_permissions"}

\* The step is a mutating call that recorded no error / that recorded one.
SuccessfulCall == call'.op \in MutatingOps /\ errors' = errors
RejectedCall == call'.op \in MutatingOps /\ Len(errors') > Len(errors)

\* C21: for an aggregate constructed with default timestamps, under a
\* non-decreasing clock, every successful mutating call sets updated_at to the
\* clock value at the call and every rejected call leaves it untouched, so
\* updated_at never decreases and updated_at >= created_at in every state.
C21_UpdatedAtFollowsClock ==
    /\ [](updated_at >= created_at)
    /\ [][/\ SuccessfulCall => updated_at' = now'
          /\ RejectedCall => updated_at' = updated_at
          /\ updated_at' >= updated_at]_vars

\* A successful removal at a clock value later than the construction moved
\* updated_at forward to it.
C21_Witness ==
    /\ call.op = "remove_allow_entry"
    /\ errors = <<>>
    /\ updated_at = now
    /\ updated_at > created_at

\* errors begins with the errors of before.
ErrorsKept(before, after) ==
    /\ Len(after) >= Len(before)
    /\ SubSeq(after, 1, Len(before)) = before

\* C22: errors recorded by a rejected mutating call are never removed by a
\* later mutating or query call: is_valid() stays false after every later
\* successful mutation until clear_notifications() is called, so is_valid()
\* after a call tells that some call since construction or since the last
\* clear_notifications failed.
C22_ErrorsStayUntilCleared ==
    /\ [](\A q \in Queries : ask(Self, q).self.errors = errors)
    /\ [][/\ call'.op \in MutatingOps =>
                 /\ ErrorsKept(errors, errors')
                 /\ ~is_valid(Self) => Len(errors') > 0
          /\ call'.op = "clear_notifications" => errors' = <<>>]_vars

\* is_valid() is false right after a grant that succeeded: the error is the
\* one an earlier rejected call left.
C22_Witness ==
    /\ call.op = "grant_viewer_access"
    /\ updated_at = now
    /\ get_principal_roles(Self, call.principal) = <<"VIEWER">>
    /\ errors = <<"Principal nao possui permissoes definidas">>
    /\ ~is_valid(Self)

\* Principal q reads the same in post as in the current state.
Untouched(post, q) ==
    /\ has_access(post, q) = has_access(Self, q)
    /\ get_principal_roles(post, q) = get_principal_roles(Self, q)

\* C23: every mutating call aimed at principal p (add_allow_entry,
\* remove_allow_entry, revoke_access, update_allow_entry, grant_*), accepted or
\* rejected, leaves has_access(q) and get_principal_roles(q) unchanged for
\* every principal q different from p; clear_all_permissions does affect
\* the other principals.
C23_OtherPrincipalsUntouched ==
    /\ \A p \in Principals, q \in Principals, t \in ClockReads :
           ~Principal_eq(p, q) =>
               /\ \A e \in AllowEntries :
                      Principal_eq(e.principal, p) =>
                          Untouched(add_allow_entry(Self, e, t), q)
               /\ Untouched(remove_allow_entry(Self, p, t), q)
               /\ Untouched(revoke_access(Self, p, t), q)
               /\ \A r \in RoleLists : Untouched(update_allow_entry(Self, p, r, t), q)
               /\ Untouched(grant_full_access(Self, p, t), q)
               /\ Untouched(grant_editor_access(Self, p, t), q)
               /\ Untouched(grant_user_access(Self, p, t), q)
               /\ Untouched(grant_viewer_access(Self, p, t), q)
    /\ \A q \in Principals, t \in ClockReads :
           ~has_access(clear_all_permissions(Self, t), q)

\* The second of two entries was removed and the other principal, stored
\* first, still reads {EDITOR, USER}.
C23_Witness ==
    /\ call.op = "remove_allow_entry"
    /\ errors = <<>>
    /\ Len(allow_entries) = 1
    /\ ~Principal_eq(allow_entries[1].principal, call.principal)
    /\ get_principal_roles(Self, allow_entries[1].principal) = <<"EDITOR", "USER">>
    /\ updated_at = now

\* C24: no operation of the aggregate changes its id, resource_type,
\* resource_id, organization_id, owner_id or created_at after construction:
\* in every reachable state they are the constructor's arguments, and that is
\* what the read-only properties return.
C24_IdentityFieldsFrozen ==
    /\ heap.fields = caller.given
    /\ created_at = caller.created_at
    /\ caller.pc = "read" =>
           caller.read = <<[fields |-> caller.given, created_at |-> caller.created_at]>>

\* After a clear_all_permissions later than the construction and a read of the
\* properties, the object still carries the identity it was built with.
C24_Witness ==
    /\ caller.pc = "read"
    /\ call.op = "clear_all_permissions"
    /\ updated_at > created_at
    /\ heap.fields.id = "rac2"
    /\ heap.fields.resource_type = "AGENTS"
    /\ caller.read[1].fields.id = "rac2"

\* How often principal occurs in a list of principals.
Occurrences(principals, principal) ==
    Cardinality({i \in 1..Len(principals) : Principal_eq(principals[i], principal)})

\* C25: in every reachable state and for every principal p, has_access(p) iff
\* can_view(p) iff get_principal_roles(p) is non-empty iff p occurs in
\* get_all_principals(); and where the aggregate was built from a
\* duplicate-free list (no two entries share a principal), get_all_principals()
\* lists each principal exactly once.
C25_QueriesAgree ==
    /\ \A p \in Principals :
           /\ has_access(Self, p) <=> can_view(Self, p)
           /\ has_access(Self, p) <=> Len(get_principal_roles(Self, p)) > 0
           /\ has_access(Self, p) <=> Occurrences(get_all_principals(Self), p) > 0
    /\ NoDuplicatePrincipals(allow_entries) =>
           \A p \in Principals :
               Occurrences(get_all_principals(Self), p)
                   = IF has_access(Self, p) THEN 1 ELSE 0

\* One principal holds an EDITOR entry and is listed once, the other was just
\* removed and is reported absent by all four queries.
C25_Witness ==
    /\ call.op = "remove_allow_entry"
    /\ errors = <<>>
    /\ Len(allow_entries) = 1
    /\ allow_entries[1].roles = <<"EDITOR">>
    /\ can_view(Self, allow_entries[1].principal)
    /\ get_all_principals(Self) = <<allow_entries[1].principal>>
    /\ ~has_access(Self, call.principal)
    /\ ~can_view(Self, call.principal)
    /\ get_principal_roles(Self, call.principal) = <<>>

\* The role sets an entry may hold.
ValidRoleSets ==
    {{"FULL_ACCESS"}, {"EDITOR"}, {"USER"}, {"VIEWER"}, {"EDITOR", "USER"}}

\* A role list without repetition whose set is one of the valid ones.
ValidRoleList(roles) ==
    /\ Len(roles) > 0
    /\ \A i, j \in 1..Len(roles) : i # j => roles[i] # roles[j]
    /\ {roles[i] : i \in 1..Len(roles)} \in ValidRoleSets

\* C26: in every state reachable by the aggregate's mutating operations from a
\* construction with valid entries, every stored entry has a valid role set;
\* no add, update or grant call, accepted or rejected, leaves an entry with an
\* empty, duplicated or forbidden role combination in the collection.
C26_StoredRoleSetsValid ==
    /\ \A i \in 1..Len(allow_entries) : ValidRoleList(allow_entries[i].roles)
    /\ \A principal \in PrincipalArgs, new_roles \in RoleListArgs, t \in ClockReads :
           LET post == update_allow_entry_any(Self, principal, new_roles, t).self
           IN  \A i \in 1..Len(post.allow_entries) :
                   ValidRoleList(post.allow_entries[i].roles)

\* An update asking for EDITOR with VIEWER was rejected and the entries kept
\* their valid role sets.
C26_Witness ==
    /\ call.op = "update_allow_entry"
    /\ caller.pc = "returned"
    /\ errors = <<"EDITOR ja inclui permissoes de VIEWER">>
    /\ Len(allow_entries) = 2
    /\ allow_entries[1].roles = <<"EDITOR", "USER">>
    /\ allow_entries[2].roles = <<"VIEWER">>

\* The sessions of uow that are not closed.
OpenSessions(uow) == {i \in 1..Len(uow.sessions) : ~uow.sessions[i].closed}

RequestClosed ==
    /\ heap.session = 0
    /\ heap.sessions[1].closed

\* The pending transaction was ended by a rollback, not thrown away by close.
RolledBackBeforeClose ==
    /\ heap.sessions[1].last = "rollback"
    /\ ~heap.sessions[1].discarded

\* A step of get_uow's own code does not commit.
NoCommitByGetUow ==
    caller.pc \in {"after_yield", "thrown", "leaving"} =>
        heap'.sessions[1].commits = heap.sessions[1].commits

C29_DeleteReportsOutcome ==
    caller.pc = "done" =>
        LET output == caller.output[1]
        IN  /\ output.success <=> (caller.existed /\ caller.removed)
            /\ ~output.success => ~caller.removed

\* C30 as the specification states it: whatever the interleaving of the
\* executions that use one slug, at most one organization with that slug is
\* stored, of the executions that ran at the same time at most one returns
\* success=True, every other one returns success=False from the slug lookup
\* or from the unique constraint, and none raises to its caller.
ExecutionsReturned(slug) ==
    {k \in Executions : caller[k].slug = slug /\ caller[k].pc = "returned"}

ExecutionsSucceeded(slug) == {k \in ExecutionsReturned(slug) : caller[k].output[1].success}

CreateFailures ==
    {<<"Slug ja esta em uso por outra organizacao">>,
     <<"Erro ao criar organizacao: IntegrityError">>}

StoredOncePerSlug ==
    \A slug \in Slugs : Cardinality({r \in heap.rows : r.slug = slug}) <= 1

FailuresFromLookupOrConstraint ==
    \A slug \in Slugs : \A k \in ExecutionsReturned(slug) \ ExecutionsSucceeded(slug) :
        caller[k].output[1].errors \in CreateFailures

NoneRaises == \A k \in Executions : caller[k].raised = ""

====
